---- MODULE Spec2Model ----
(***************************************************************************)
(* The session store (SessionContext: reducer, lazy initializer, persist   *)
(* effect), the workflow helpers (lib/workflow.ts) and the page handlers   *)
(* that drive them, as a state machine.                                    *)
(*                                                                         *)
(* JavaScript values are tagged records [t |-> type, v |-> payload] so     *)
(* that values of different JavaScript types can be compared.  Numbers     *)
(* are finite integers.                                                    *)
(***************************************************************************)
EXTENDS Integers, Sequences, FiniteSets, TLC

(***************************************************************************)
(* Bounds of the model.                                                    *)
(***************************************************************************)
\* Date.now() ranges over 0..MaxClock (milliseconds).
MaxClock == 1
\* chatHistory holds at most MaxChat messages.
MaxChat == 2
\* A store-level run dispatches at most MaxOps actions.
MaxOps == 3
\* A stored JSON object has at most MaxStoredFields top-level fields.
MaxStoredFields == 2
\* A page-level run handles at most MaxClicks user events.
MaxClicks == 4
\* At most MaxCalls collaborator calls are in flight at a time.
MaxCalls == 2

(***************************************************************************)
(* JavaScript values.                                                      *)
(***************************************************************************)
JNull == [t |-> "null", v |-> 0]
JNum(n) == [t |-> "number", v |-> n]
JStr(s) == [t |-> "string", v |-> s]
JArr(s) == [t |-> "array", v |-> s]
JObj(f) == [t |-> "object", v |-> f]
\* A Date object holding the time value ms.
JDate(ms) == [t |-> "Date", v |-> ms]
\* A Date object whose time value is NaN.
InvalidDate == [t |-> "InvalidDate", v |-> 0]

\* JavaScript truthiness of a value (if (x) ...).
Truthy(x) ==
  CASE x.t \in {"null", "undefined"} -> FALSE
    [] x.t = "number" -> x.v # 0
    [] x.t = "string" -> x.v # ""
    [] x.t = "boolean" -> x.v
    [] OTHER -> TRUE

Range(s) == {s[i] : i \in 1..Len(s)}

(***************************************************************************)
(* lib/workflow.ts                                                         *)
(***************************************************************************)
\* The ids of WORKFLOW_STEPS, in order (TLA+ sequences are 1-based; the
\* indices below are the 0-based indices of the code).
WORKFLOW_STEPS ==
  <<"placement", "upload", "verify", "coords", "predict", "compare", "chat">>

StepIds == Range(WORKFLOW_STEPS)

\* findIndex: the 0-based index of the first step with this id, or -1.
getStepIndex(stepId) ==
  IF \E i \in 1..Len(WORKFLOW_STEPS) : WORKFLOW_STEPS[i] = stepId
  THEN (CHOOSE i \in 1..Len(WORKFLOW_STEPS) :
          /\ WORKFLOW_STEPS[i] = stepId
          /\ \A j \in 1..(i - 1) : WORKFLOW_STEPS[j] # stepId) - 1
  ELSE -1

\* Array.prototype.includes on an array of strings.
includes(arr, s) == \E i \in 1..Len(arr) : arr[i] = JStr(s)

\* The loop of isStepAccessible from index i: false at the first missing step.
RECURSIVE accessibleFrom(_, _, _)
accessibleFrom(i, targetIndex, completedSteps) ==
  IF i < targetIndex
  THEN IF ~includes(completedSteps, WORKFLOW_STEPS[i + 1])
       THEN FALSE
       ELSE accessibleFrom(i + 1, targetIndex, completedSteps)
  ELSE TRUE

\* A plausible slip: the loop starts at 1 and skips the first step.
isStepAccessibleSkipFirst(targetStepId, completedSteps) ==
  LET targetIndex == getStepIndex(targetStepId)
  IN IF targetIndex = 0 THEN TRUE
     ELSE accessibleFrom(1, targetIndex, completedSteps)

isStepAccessible(targetStepId, completedSteps) ==
  LET targetIndex == getStepIndex(targetStepId)
  IN IF targetIndex = 0 THEN TRUE
     ELSE accessibleFrom(0, targetIndex, completedSteps)

\* A plausible slip: the -1 of an unknown id is not checked, and the step at
\* index -1 + 1 is returned.
getNextStepUnknownUnchecked(currentStepId) ==
  LET currentIndex == getStepIndex(currentStepId)
  IN IF currentIndex >= Len(WORKFLOW_STEPS) - 1
     THEN [t |-> "null", v |-> 0]
     ELSE [t |-> "string", v |-> WORKFLOW_STEPS[currentIndex + 2]]

\* getNextStep: the step after this one (a step is given by its id), or null.
getNextStep(currentStepId) ==
  LET currentIndex == getStepIndex(currentStepId)
  IN IF currentIndex = -1 \/ currentIndex >= Len(WORKFLOW_STEPS) - 1
     THEN [t |-> "null", v |-> 0]
     ELSE [t |-> "string", v |-> WORKFLOW_STEPS[currentIndex + 2]]

\* getPrevStep: the step before this one, or null.
getPrevStep(currentStepId) ==
  LET currentIndex == getStepIndex(currentStepId)
  IN IF currentIndex <= 0
     THEN [t |-> "null", v |-> 0]
     ELSE [t |-> "string", v |-> WORKFLOW_STEPS[currentIndex]]

\* A plausible slip: the steps after the first are counted.
getProgressOffByOne(completedSteps) ==
  [num |-> Len(completedSteps) * 100, den |-> Len(WORKFLOW_STEPS) - 1]

\* getProgress: (completedSteps.length / WORKFLOW_STEPS.length) * 100, as
\* the fraction num / den.
getProgress(completedSteps) ==
  [num |-> Len(completedSteps) * 100, den |-> Len(WORKFLOW_STEPS)]

\* WORKFLOW_STEPS[i].path for the step with this id.
stepPath(id) ==
  CASE id = "placement" -> "/3d"
    [] id = "upload" -> "/upload"
    [] id = "verify" -> "/verify"
    [] id = "coords" -> "/coords"
    [] id = "predict" -> "/predict"
    [] id = "compare" -> "/compare"
    [] id = "chat" -> "/chat"

(***************************************************************************)
(* context/SessionContext: state, actions, reducer                         *)
(***************************************************************************)
Coords(x, y, z) == JObj([x |-> JNum(x), y |-> JNum(y), z |-> JNum(z)])
Rgb(r, g, b) == JObj([r |-> JNum(r), g |-> JNum(g), b |-> JNum(b)])

\* `student_${Date.now()}` evaluated at time ms.
studentIdAt(ms) == JStr("student_" \o ToString(ms))

\* initialState, for a module evaluated at time ms.
initialState(ms) ==
  [ studentId |-> studentIdAt(ms),
    robotCoordinates |-> Coords(128, 128, 128),
    uploadedImage |-> JNull,
    cvResult |-> JNull,
    studentCoordinates |-> JNull,
    studentRgb |-> Rgb(128, 128, 128),
    aiRgb |-> JNull,
    chatHistory |-> JArr(<<>>),
    completedSteps |-> JArr(<<>>),
    currentStep |-> JStr("placement") ]

FieldNames == DOMAIN initialState(0)

Act(type, payload) == [type |-> type, payload |-> payload]

\* A plausible slip: COMPLETE_STEP without the includes() guard.
reduceCompleteStepNoGuard(st, payload) ==
  [st EXCEPT !.completedSteps = JArr(Append(@.v, payload))]

\* A plausible slip: the new id is put first.
reduceCompleteStepPrepend(st, payload) ==
  IF includes(st.completedSteps.v, payload.v)
  THEN st
  ELSE [st EXCEPT !.completedSteps = JArr(<<payload>> \o @.v)]

\* case 'COMPLETE_STEP'
reduceCompleteStep(st, payload) ==
  IF includes(st.completedSteps.v, payload.v)
  THEN st
  ELSE [st EXCEPT !.completedSteps = JArr(Append(@.v, payload))]

\* A plausible slip: the new message is put first.
reduceAddChatMessagePrepend(st, payload) ==
  [st EXCEPT !.chatHistory = JArr(<<payload>> \o @.v)]

\* case 'ADD_CHAT_MESSAGE'
reduceAddChatMessage(st, payload) ==
  [st EXCEPT !.chatHistory = JArr(Append(@.v, payload))]

\* A plausible slip: the cursor only moves to a step that is accessible.
reduceSetCurrentStepGated(st, payload) ==
  IF isStepAccessible(payload.v, st.completedSteps.v)
  THEN [st EXCEPT !.currentStep = payload]
  ELSE st

\* case 'SET_CURRENT_STEP'
reduceSetCurrentStep(st, payload) == [st EXCEPT !.currentStep = payload]

\* A plausible slip: reset puts the robot at the origin, not at the centre.
reduceResetRobotAtOrigin(ms, t) ==
  [initialState(ms) EXCEPT !.studentId = studentIdAt(t),
                           !.robotCoordinates = Coords(0, 0, 0)]

\* A plausible slip: reset returns initialState itself, identity included.
reduceResetKeepInitialId(ms, t) == initialState(ms)

\* case 'RESET_SESSION'; ms is the time the module was evaluated
\* (initialState.studentId), t is Date.now() at the call.
reduceReset(ms, t) == [initialState(ms) EXCEPT !.studentId = studentIdAt(t)]

MutatingTypes ==
  { "SET_STUDENT_ID", "SET_ROBOT_COORDINATES", "SET_UPLOADED_IMAGE",
    "SET_CV_RESULT", "SET_STUDENT_COORDINATES", "SET_STUDENT_RGB",
    "SET_AI_RGB", "ADD_CHAT_MESSAGE", "COMPLETE_STEP", "SET_CURRENT_STEP",
    "RESET_SESSION" }

\* A plausible slip: a new student colour discards the AI colour.
sessionReducerRgbClearsAi(st, action, ms, t) ==
  CASE action.type = "SET_STUDENT_ID" ->
         [st EXCEPT !.studentId = action.payload]
    [] action.type = "SET_ROBOT_COORDINATES" ->
         [st EXCEPT !.robotCoordinates = action.payload]
    [] action.type = "SET_UPLOADED_IMAGE" ->
         [st EXCEPT !.uploadedImage = action.payload]
    [] action.type = "SET_CV_RESULT" ->
         [st EXCEPT !.cvResult = action.payload]
    [] action.type = "SET_STUDENT_COORDINATES" ->
         [st EXCEPT !.studentCoordinates = action.payload]
    [] action.type = "SET_STUDENT_RGB" ->
         [st EXCEPT !.studentRgb = action.payload, !.aiRgb = JNull]
    [] action.type = "SET_AI_RGB" ->
         [st EXCEPT !.aiRgb = action.payload]
    [] action.type = "ADD_CHAT_MESSAGE" ->
         reduceAddChatMessage(st, action.payload)
    [] action.type = "COMPLETE_STEP" ->
         reduceCompleteStep(st, action.payload)
    [] action.type = "SET_CURRENT_STEP" ->
         reduceSetCurrentStep(st, action.payload)
    [] action.type = "RESET_SESSION" ->
         reduceReset(ms, t)
    [] OTHER -> st

\* sessionReducer(state, action).
sessionReducer(st, action, ms, t) ==
  CASE action.type = "SET_STUDENT_ID" ->
         [st EXCEPT !.studentId = action.payload]
    [] action.type = "SET_ROBOT_COORDINATES" ->
         [st EXCEPT !.robotCoordinates = action.payload]
    [] action.type = "SET_UPLOADED_IMAGE" ->
         [st EXCEPT !.uploadedImage = action.payload]
    [] action.type = "SET_CV_RESULT" ->
         [st EXCEPT !.cvResult = action.payload]
    [] action.type = "SET_STUDENT_COORDINATES" ->
         [st EXCEPT !.studentCoordinates = action.payload]
    [] action.type = "SET_STUDENT_RGB" ->
         [st EXCEPT !.studentRgb = action.payload]
    [] action.type = "SET_AI_RGB" ->
         [st EXCEPT !.aiRgb = action.payload]
    [] action.type = "ADD_CHAT_MESSAGE" ->
         reduceAddChatMessage(st, action.payload)
    [] action.type = "COMPLETE_STEP" ->
         reduceCompleteStep(st, action.payload)
    [] action.type = "SET_CURRENT_STEP" ->
         reduceSetCurrentStep(st, action.payload)
    [] action.type = "RESET_SESSION" ->
         reduceReset(ms, t)
    [] OTHER -> st

\* Whether the reducer returns the very object it was given (`return state`):
\* React then sees no state change, and neither re-renders the provider nor
\* runs the persist effect.
returnsSameObject(st, action) ==
  \/ /\ action.type = "COMPLETE_STEP"
     /\ includes(st.completedSteps.v, action.payload.v)
  \/ action.type \notin MutatingTypes

\* The reducer applied to the queued actions in dispatch order.
RECURSIVE applyAll(_, _, _, _)
applyAll(st, q, ms, t) ==
  IF q = <<>> THEN st
  ELSE applyAll(sessionReducer(st, Head(q), ms, t), Tail(q), ms, t)

\* The number of queued actions for which the reducer returns a new object.
RECURSIVE countChanges(_, _, _, _)
countChanges(st, q, ms, t) ==
  IF q = <<>> THEN 0
  ELSE (IF returnsSameObject(st, Head(q)) THEN 0 ELSE 1)
       + countChanges(sessionReducer(st, Head(q), ms, t), Tail(q), ms, t)

(***************************************************************************)
(* JSON, Date and localStorage                                             *)
(***************************************************************************)
JUndefined == [t |-> "undefined", v |-> 0]
JBool(b) == [t |-> "boolean", v |-> b]

\* Date.prototype.toISOString for a time value 0..9 ms after the epoch.
toISOString(ms) == "1970-01-01T00:00:00.00" \o ToString(ms) \o "Z"

\* Date.parse of a string: the time value, or -1 for NaN.
DateParse(s) ==
  IF \E ms \in 0..9 : toISOString(ms) = s
  THEN CHOOSE ms \in 0..9 : toISOString(ms) = s
  ELSE -1

\* A plausible slip: the timestamp is left as JSON.parse gave it.
newDateNotRevived(x) == x

\* new Date(value)
newDate(x) ==
  CASE x.t = "string" ->
         IF DateParse(x.v) = -1 THEN InvalidDate ELSE JDate(DateParse(x.v))
    [] x.t = "number" -> JDate(x.v)
    [] x.t = "Date" -> x
    [] x.t = "null" -> JDate(0)
    [] x.t = "boolean" -> JDate(IF x.v THEN 1 ELSE 0)
    [] OTHER -> InvalidDate

\* The value JSON.stringify serializes in place of x: a Date by toJSON (its
\* ISO string, null when the time value is NaN), arrays and objects
\* member by member.
RECURSIVE toJSONValue(_)
toJSONValue(x) ==
  CASE x.t = "Date" -> JStr(toISOString(x.v))
    [] x.t = "InvalidDate" -> JNull
    [] x.t = "array" -> JArr([i \in 1..Len(x.v) |-> toJSONValue(x.v[i])])
    [] x.t = "object" -> JObj([k \in DOMAIN x.v |-> toJSONValue(x.v[k])])
    [] OTHER -> x

\* What a storage slot holds: nothing (getItem gives null), the empty string,
\* a text that is not JSON, or the text of a JSON document.
NoItem == [kind |-> "none", doc |-> JNull]
EmptyText == [kind |-> "empty", doc |-> JNull]
GarbageText == [kind |-> "garbage", doc |-> JNull]
JsonText(doc) == [kind |-> "json", doc |-> doc]

\* JSON.stringify(value): the text of the document.
JSONstringify(x) == JsonText(toJSONValue(x))

\* JSON.parse(text): the value, or a SyntaxError.
JSONparse(text) ==
  IF text.kind = "json"
  THEN [threw |-> FALSE, value |-> text.doc]
  ELSE [threw |-> TRUE, value |-> JUndefined]

\* The characters of the strings stored documents are made of.
Chars(s) ==
  CASE s = "" -> <<>>
    [] s = "a" -> <<"a">>
    [] s = "ab" -> <<"a", "b">>

\* The own enumerable properties object spread copies from x ({...x}).
ownProperties(x) ==
  CASE x.t = "object" -> x.v
    [] x.t = "array" ->
         [k \in {ToString(i - 1) : i \in 1..Len(x.v)} |->
            x.v[CHOOSE i \in 1..Len(x.v) : ToString(i - 1) = k]]
    [] x.t = "string" ->
         [k \in {ToString(i - 1) : i \in 1..Len(Chars(x.v))} |->
            JStr(Chars(x.v)[CHOOSE i \in 1..Len(Chars(x.v)) : ToString(i - 1) = k])]
    [] OTHER -> [k \in {} |-> JUndefined]

\* x.name for a value x that is neither null nor undefined.
getProperty(x, name) ==
  IF name \in DOMAIN ownProperties(x) THEN ownProperties(x)[name] ELSE JUndefined

\* { ...a, ...b } on property maps.
spread(a, b) ==
  [k \in DOMAIN a \cup DOMAIN b |-> IF k \in DOMAIN b THEN b[k] ELSE a[k]]

\* The callback of parsed.chatHistory.map: { ...msg, timestamp: new Date(msg.timestamp) }.
\* Reading msg.timestamp throws a TypeError when msg is null.
reviveMessage(msg) ==
  JObj(spread(ownProperties(msg),
              [timestamp |-> newDate(getProperty(msg, "timestamp"))]))

\* A plausible slip: stored fields are merged under the defaults.
mergeDefaultsOver(initial, parsed) == spread(ownProperties(parsed), initial)

\* { ...initial, ...parsed }
mergeOverDefaults(initial, parsed) == spread(initial, ownProperties(parsed))

\* A plausible slip: a stored chatHistory of the wrong shape is not noticed
\* (no .map call), so nothing throws and the object is merged as it is.
reviveChatHistoryUnchecked(parsed) ==
  [threw |-> FALSE, value |-> parsed]

\* Lines 102-107 of the initializer: the parsed value with its chatHistory
\* revived, or the TypeError thrown on the way.
reviveChatHistory(parsed) ==
  IF parsed.t \in {"null", "undefined"}
  THEN [threw |-> TRUE, value |-> JUndefined]      \* parsed.chatHistory of null
  ELSE LET ch == getProperty(parsed, "chatHistory")
       IN IF ~Truthy(ch)
          THEN [threw |-> FALSE, value |-> parsed]
          ELSE IF ch.t # "array"
          THEN [threw |-> TRUE, value |-> JUndefined]   \* .map is not a function
          ELSE IF \E i \in 1..Len(ch.v) : ch.v[i].t \in {"null", "undefined"}
          THEN [threw |-> TRUE, value |-> JUndefined]   \* msg.timestamp of null
          ELSE IF parsed.t # "object"
          THEN [threw |-> FALSE, value |-> parsed]      \* assignment to a primitive
          ELSE [threw |-> FALSE,
                value |-> JObj([parsed.v EXCEPT !.chatHistory =
                            JArr([i \in 1..Len(ch.v) |-> reviveMessage(ch.v[i])])])]

\* The lazy initializer of useReducer: the first state, given initialState
\* and what localStorage.getItem(STORAGE_KEY) holds.
initializer(initial, stored) ==
  IF stored.kind \in {"none", "empty"}
  THEN initial                                     \* if (stored) is false
  ELSE LET p == JSONparse(stored)
       IN IF p.threw THEN initial
          ELSE LET r == reviveChatHistory(p.value)
               IN IF r.threw THEN initial
                  ELSE mergeOverDefaults(initial, r.value)

STORAGE_KEY == "tangible-ai-session"
\* Any other key of localStorage.
OtherKey == "other-key"
StorageKeys == {STORAGE_KEY, OtherKey}

\* A plausible slip: the write goes to another key.
setItemWrongKey(store, key, text) == [store EXCEPT ![OtherKey] = text]

\* localStorage.setItem(key, text)
setItem(store, key, text) == [store EXCEPT ![key] = text]

(***************************************************************************)
(* The state of the running application.                                   *)
(***************************************************************************)
VARIABLES
  now,             \* Date.now()
  bootTime,        \* Date.now() when the module (initialState) was evaluated
  state,           \* the reducer state of SessionProvider
  storage,         \* localStorage: key -> what the slot holds
  persistPending,  \* the provider rendered a new state; its effect has not run
  chatLog,         \* history: the messages appended since the last reset
  ops,             \* the number of actions dispatched so far
  last,            \* history: the last operation (an action, or a reload)
  wf,              \* the arguments and result of a workflow helper call
  route,           \* the path the router shows
  updates,         \* React updates dispatched and not yet rendered, in order
  calls,           \* the collaborator calls in flight, with their closures
  pagePending,     \* the page rendered; its effects have not run
  local,           \* the useState values of the page that is mounted
  clicks           \* the number of user events handled so far

storeVars == <<state, storage, persistPending, chatLog, ops, last>>
clockVars == <<now, bootTime>>
pageVars == <<route, updates, calls, pagePending, local, clicks>>
vars ==
  <<now, bootTime, state, storage, persistPending, chatLog, ops, last, wf,
    route, updates, calls, pagePending, local, clicks>>

\* The useState values of a page: isSubmitting or isLoading, and previewUrl.
NoLocal == [busy |-> FALSE, previewUrl |-> JNull]

\* No page is driven: the store is used on its own.
NoPages ==
  /\ route = "/"
  /\ updates = <<>>
  /\ calls = <<>>
  /\ pagePending = FALSE
  /\ local = NoLocal
  /\ clicks = 0

NoCall == [fn |-> "none", target |-> "", completed |-> <<>>, done |-> FALSE, value |-> FALSE]

\* The messages appended by the queued actions, in order, since the last reset.
RECURSIVE logAll(_, _)
logAll(log, q) ==
  IF q = <<>> THEN log
  ELSE logAll(CASE Head(q).type = "ADD_CHAT_MESSAGE" -> Append(log, Head(q).payload)
                [] Head(q).type = "RESET_SESSION" -> <<>>
                [] OTHER -> log,
              Tail(q))

\* The effect of useEffect(() => localStorage.setItem(STORAGE_KEY,
\* JSON.stringify(state)), [state]).
persist(store, st) == setItem(store, STORAGE_KEY, JSONstringify(JObj(st)))

(***************************************************************************)
(* Payloads of the store-level specification.                              *)
(***************************************************************************)
SomeCoords == Coords(10, 20, 30)
SomeRgb == Rgb(1, 2, 3)
SomeImage == JStr("blob:drawing-1")
SomeCvResult ==
  JObj([ accuracy |-> JNum(90),
         detectedObjects |-> JArr(<<JStr("robot"), JStr("cube"), JStr("grid")>>),
         boundingBoxes |-> JArr(<<JObj([x |-> JNum(100), y |-> JNum(100),
                                        width |-> JNum(200), height |-> JNum(200)])>>),
         confidence |-> JNum(95) ])
ChatMessage(role, content, ms) ==
  JObj([role |-> JStr(role), content |-> JStr(content), timestamp |-> JDate(ms)])
\* Step ids given to complete-step and set-current-step: workflow steps and
\* an id that is no workflow step.
StepPayloads == {"placement", "upload", "no-such-step"}

(***************************************************************************)
(* Store-level operations: one dispatch, rendered before the next.         *)
(***************************************************************************)
\* dispatch(action), rendered at once.
DispatchNow(action) ==
  /\ ~persistPending
  /\ state' = sessionReducer(state, action, bootTime, now)
  /\ persistPending' = ~returnsSameObject(state, action)
  /\ chatLog' = logAll(chatLog, <<action>>)
  /\ last' = [type |-> action.type, payload |-> action.payload,
              same |-> returnsSameObject(state, action)]
  /\ UNCHANGED <<storage, clockVars, wf, pageVars>>

Dispatch(action) ==
  /\ ops < MaxOps
  /\ ops' = ops + 1
  /\ DispatchNow(action)

setRobotCoordinates == Dispatch(Act("SET_ROBOT_COORDINATES", SomeCoords))
setUploadedImage == Dispatch(Act("SET_UPLOADED_IMAGE", SomeImage))
setCvResult == Dispatch(Act("SET_CV_RESULT", SomeCvResult))
setStudentCoordinates == Dispatch(Act("SET_STUDENT_COORDINATES", SomeCoords))
setStudentRgb == Dispatch(Act("SET_STUDENT_RGB", SomeRgb))
setAiRgb == Dispatch(Act("SET_AI_RGB", SomeRgb))
addChatMessage ==
  /\ Len(state.chatHistory.v) < MaxChat
  /\ \E role \in {"user", "assistant"} :
       Dispatch(Act("ADD_CHAT_MESSAGE", ChatMessage(role, "hello", now)))
completeStep == \E id \in StepPayloads : Dispatch(Act("COMPLETE_STEP", JStr(id)))
setCurrentStep == \E id \in StepPayloads : Dispatch(Act("SET_CURRENT_STEP", JStr(id)))
resetSession == Dispatch(Act("RESET_SESSION", JNull))
\* dispatch is exposed on the context: an action of a type the reducer does not know.
dispatchUnknown == Dispatch(Act("UNKNOWN", JNull))

PersistEffect ==
  /\ persistPending
  /\ storage' = persist(storage, state)
  /\ persistPending' = FALSE
  /\ UNCHANGED <<state, chatLog, ops, last, clockVars, wf, pageVars>>

Tick ==
  /\ now < MaxClock
  /\ now' = now + 1
  /\ UNCHANGED <<bootTime, storeVars, wf, pageVars>>

\* The page is loaded again: the module is evaluated anew and the provider
\* mounts, reading the slot.
Reload ==
  /\ ~persistPending
  /\ bootTime' = now
  /\ state' = initializer(initialState(now), storage[STORAGE_KEY])
  /\ persistPending' = TRUE
  /\ last' = [type |-> "RELOAD", payload |-> JNull, same |-> FALSE]
  /\ UNCHANGED <<now, storage, chatLog, ops, wf, pageVars>>

Init ==
  /\ now = 0
  /\ bootTime = 0
  /\ storage = [k \in StorageKeys |-> NoItem]
  /\ state = initializer(initialState(0), NoItem)
  /\ persistPending = TRUE
  /\ chatLog = <<>>
  /\ ops = 0
  /\ last = [type |-> "MOUNT", payload |-> JNull, same |-> FALSE]
  /\ wf = NoCall
  /\ NoPages

Next ==
  \/ setRobotCoordinates
  \/ setUploadedImage
  \/ setCvResult
  \/ setStudentCoordinates
  \/ setStudentRgb
  \/ setAiRgb
  \/ addChatMessage
  \/ completeStep
  \/ setCurrentStep
  \/ resetSession
  \/ dispatchUnknown
  \/ PersistEffect
  \/ Tick
  \/ Reload

Spec == Init /\ [][Next]_vars

(***************************************************************************)
(* Start-up from whatever the slot holds.                                  *)
(***************************************************************************)
\* A chat message as JSON text holds it: the timestamp is whatever ts is.
StoredMessage(ts) ==
  JObj([role |-> JStr("user"), content |-> JStr("hello"), timestamp |-> ts])

LegacyField == "score"
StoredKeys == FieldNames \cup {LegacyField}

\* The values a stored object may hold under each key: values of the shape
\* SessionState declares, and values of other shapes.
StoredCandidates(k) ==
  CASE k = "studentId" -> {JStr("student_7")}
    [] k = "robotCoordinates" -> {SomeCoords}
    [] k = "uploadedImage" -> {SomeImage}
    [] k = "cvResult" -> {SomeCvResult}
    [] k = "studentCoordinates" -> {SomeCoords}
    [] k = "studentRgb" -> {SomeRgb}
    [] k = "aiRgb" -> {SomeRgb}
    [] k = "chatHistory" ->
         { JArr(<<>>),
           JArr(<<StoredMessage(JStr(toISOString(1)))>>),
           JArr(<<StoredMessage(JStr(toISOString(0))),
                  StoredMessage(JStr(toISOString(1)))>>),
           JArr(<<JNull>>),
           JNum(5), JStr("ab"), JNull, JObj([k2 \in {} |-> JNull]) }
    [] k = "completedSteps" ->
         { JArr(<<JStr("placement")>>), JNum(5), JStr("ab") }
    [] k = "currentStep" -> {JStr("upload"), JNum(3)}
    [] k = LegacyField -> {JNum(1)}

StoredObjects ==
  UNION { { f \in [S -> UNION {StoredCandidates(k) : k \in S}] :
              \A k \in S : f[k] \in StoredCandidates(k) } :
          S \in {T \in SUBSET StoredKeys : Cardinality(T) <= MaxStoredFields} }

StoredContents ==
  {NoItem, EmptyText, GarbageText}
  \cup {JsonText(d) : d \in {JNull, JNum(5), JBool(TRUE), JStr("a"),
                             JArr(<<>>), JArr(<<JNum(1)>>)}}
  \cup {JsonText(JObj(f)) : f \in StoredObjects}

InitLoad ==
  /\ now = 0
  /\ bootTime = 0
  /\ \E content \in StoredContents :
       /\ storage = [k \in StorageKeys |-> IF k = STORAGE_KEY THEN content ELSE NoItem]
       /\ state = initializer(initialState(0), content)
  /\ persistPending = TRUE
  /\ chatLog = <<>>
  /\ ops = 0
  /\ last = [type |-> "MOUNT", payload |-> JNull, same |-> FALSE]
  /\ wf = NoCall
  /\ NoPages

NextLoad ==
  \/ PersistEffect
  \/ Tick
  \/ Reload

SpecLoad == InitLoad /\ [][NextLoad]_vars

(***************************************************************************)
(* Calls of the workflow helpers.                                          *)
(***************************************************************************)
AllStepIds == StepIds \cup {"no-such-step"}

\* The ids of S as an array, in workflow order or in the reverse order.
RECURSIVE arrayOf(_, _, _)
arrayOf(S, ids, reversed) ==
  IF ids = <<>> THEN <<>>
  ELSE LET rest == arrayOf(S, Tail(ids), reversed)
       IN IF Head(ids) \in S
          THEN IF reversed THEN Append(rest, JStr(Head(ids)))
                           ELSE <<JStr(Head(ids))>> \o rest
          ELSE rest

CompletedInputs ==
  { arrayOf(S, WORKFLOW_STEPS \o <<"no-such-step">>, r) :
      S \in SUBSET AllStepIds, r \in BOOLEAN }

InitWorkflow ==
  /\ now = 0
  /\ bootTime = 0
  /\ storage = [k \in StorageKeys |-> NoItem]
  /\ state = initializer(initialState(0), NoItem)
  /\ persistPending = TRUE
  /\ chatLog = <<>>
  /\ ops = 0
  /\ last = [type |-> "MOUNT", payload |-> JNull, same |-> FALSE]
  /\ \/ \E id \in StepIds, c \in CompletedInputs :
          wf = [fn |-> "isStepAccessible", target |-> id, completed |-> c,
                done |-> FALSE, value |-> FALSE]
     \/ \E fn \in {"getNextStep", "getPrevStep"}, id \in AllStepIds :
          wf = [fn |-> fn, target |-> id, completed |-> <<>>,
                done |-> FALSE, value |-> FALSE]
  /\ NoPages

callIsStepAccessible ==
  /\ wf.fn = "isStepAccessible"
  /\ ~wf.done
  /\ wf' = [wf EXCEPT !.done = TRUE,
                      !.value = isStepAccessible(wf.target, wf.completed)]
  /\ UNCHANGED <<clockVars, storeVars, pageVars>>

callGetNextStep ==
  /\ wf.fn = "getNextStep"
  /\ ~wf.done
  /\ wf' = [wf EXCEPT !.done = TRUE, !.value = getNextStep(wf.target)]
  /\ UNCHANGED <<clockVars, storeVars, pageVars>>

callGetPrevStep ==
  /\ wf.fn = "getPrevStep"
  /\ ~wf.done
  /\ wf' = [wf EXCEPT !.done = TRUE, !.value = getPrevStep(wf.target)]
  /\ UNCHANGED <<clockVars, storeVars, pageVars>>

NextWorkflow ==
  \/ callIsStepAccessible
  \/ callGetNextStep
  \/ callGetPrevStep

SpecWorkflow == InitWorkflow /\ [][NextWorkflow]_vars

(***************************************************************************)
(* The pages (App routes, page effects, page handlers) under React 18:     *)
(* updates dispatched before a render are applied by it in dispatch order, *)
(* in one batch; the passive effects of a render (the page's first, then   *)
(* the provider's persist effect) run after it and before the next render; *)
(* the render of a user event is synchronous.  The dashboard route does    *)
(* not use the session and is left out.                                    *)
(***************************************************************************)
Routes == {"/"} \cup {stepPath(id) : id \in StepIds}
isWorkflowPage(path) == \E id \in StepIds : stepPath(id) = path
stepOfRoute(path) == CHOOSE id \in StepIds : stepPath(id) = path

\* Updates other than reducer actions: navigate(path) and the setters of
\* the page's useState values.
Navigate(path) == Act("NAVIGATE", JStr(path))
SetBusy(b) == Act("SET_BUSY", JBool(b))
SetPreviewUrl(u) == Act("SET_PREVIEW_URL", u)

\* The updates q as one task (an event handler, a continuation of a handler
\* after an await, or an effect) dispatches them.
dispatchedBy(task, q) ==
  [i \in 1..Len(q) |->
     [type |-> q[i].type, payload |-> q[i].payload, by |-> task]]

\* The reducer actions among the pending updates.
storeActions(q) == SelectSeq(q, LAMBDA a : a.type \in MutatingTypes)

\* The path shown after the navigations among the pending updates.
RECURSIVE routeAfter(_, _)
routeAfter(r, q) ==
  IF q = <<>> THEN r
  ELSE routeAfter(IF Head(q).type = "NAVIGATE" THEN Head(q).payload.v ELSE r,
                  Tail(q))

\* The page's useState values after the setters among the pending updates.
RECURSIVE localAfter(_, _)
localAfter(loc, q) ==
  IF q = <<>> THEN loc
  ELSE localAfter(CASE Head(q).type = "SET_BUSY" ->
                         [loc EXCEPT !.busy = Head(q).payload.v]
                    [] Head(q).type = "SET_PREVIEW_URL" ->
                         [loc EXCEPT !.previewUrl = Head(q).payload]
                    [] OTHER -> loc,
                  Tail(q))

\* The useState initial values of the page at path, mounted over state st:
\* VerifyPage's isLoading is !state.cvResult, UploadPage's previewUrl is
\* state.uploadedImage, every isSubmitting is false.
mountLocal(path, st) ==
  [ busy |-> (path = "/verify" /\ ~Truthy(st.cvResult)),
    previewUrl |-> IF path = "/upload" THEN st.uploadedImage ELSE JNull ]

\* A collaborator call in flight: the function, the handler awaiting it, the
\* values its continuation holds in its closure, and whether the component
\* instance that started it has been unmounted since.
Call(fn, by, arg) == [fn |-> fn, by |-> by, arg |-> arg, stale |-> FALSE]
markStale(cs) == [i \in 1..Len(cs) |-> [cs[i] EXCEPT !.stale = TRUE]]
removeAt(cs, i) == SubSeq(cs, 1, i - 1) \o SubSeq(cs, i + 1, Len(cs))

\* A useState setter of an unmounted instance does nothing.
unlessStale(c, q) == IF c.stale THEN <<>> ELSE q

\* ComparePage and ChatPage render null while state.aiRgb is null.
pageShown(r, st) == r \in {"/compare", "/chat"} => Truthy(st.aiRgb)

\* Math.round of a model number (the model's numbers are integers; the
\* robot scene reports rounded coordinates).
MathRound(n) == n

\* What fetchAiRgb resolves to.
fetchAiRgbResult(coords) ==
  Rgb(MathRound(coords.v.x.v), MathRound(coords.v.y.v), MathRound(coords.v.z.v))

SomeQuestion == "How do coordinates map to RGB?"
SomeResponse == "Great question!"
ErrorResponse == "I'm sorry, I couldn't process your message. Please try again."

\* The number of actions of a batch that change the state, follow a
\* state-changing action of the same task, and are applied over a state that
\* differs from what the slot holds (the state their predecessor produced
\* was not written).  prev is the task of the last state-changing action.
RECURSIVE unwrittenBefore(_, _, _, _, _, _)
unwrittenBefore(slot, st, q, prev, ms, t) ==
  IF q = <<>> THEN 0
  ELSE LET a == Head(q)
           changes == ~returnsSameObject(st, a)
       IN (IF changes /\ a.by = prev /\ JSONstringify(JObj(st)) # slot
           THEN 1 ELSE 0)
          + unwrittenBefore(slot, sessionReducer(st, a, ms, t), Tail(q),
                            IF changes THEN a.by ELSE prev, ms, t)

\* One render and commit: the pending updates q are applied in order; a
\* navigation unmounts the page and mounts the one at the new path.  loc and
\* cs are the useState values and the calls in flight as the event handler
\* that caused the render (if any) left them.
RenderOf(q, loc, cs) ==
  LET acts == storeActions(q)
      st2 == applyAll(state, acts, bootTime, now)
      changed == countChanges(state, acts, bootTime, now) > 0
      r2 == routeAfter(route, q)
  IN /\ state' = st2
     /\ persistPending' = changed
     /\ pagePending' = (changed \/ r2 # route)
     /\ route' = r2
     /\ local' = IF r2 # route THEN mountLocal(r2, st2) ELSE localAfter(loc, q)
     /\ calls' = IF r2 # route THEN markStale(cs) ELSE cs
     /\ updates' = <<>>
     /\ chatLog' = logAll(chatLog, acts)
     /\ last' = [type |-> "RENDER",
                 payload |-> JNum(unwrittenBefore(storage[STORAGE_KEY], state,
                                                  acts, "", bootTime, now)),
                 same |-> ~changed]
     /\ UNCHANGED <<storage, ops, clockVars, wf>>

\* The render React schedules for updates dispatched outside a user event.
Render ==
  /\ updates # <<>>
  /\ ~pagePending
  /\ RenderOf(updates, local, calls)
  /\ UNCHANGED clicks

\* The updates the effects of the page at r dispatch, in the order the
\* effects are declared: the mount effect (its dependency setCurrentStep is
\* a new function on every provider render), then the page's redirect or
\* fetch effect.
pageEffectUpdates(r, st) ==
  (IF isWorkflowPage(r)
   THEN <<Act("SET_CURRENT_STEP", JStr(stepOfRoute(r)))>> ELSE <<>>)
  \o (CASE r = "/verify" ->
             IF ~Truthy(st.uploadedImage) THEN <<Navigate("/upload")>>
             ELSE IF ~Truthy(st.cvResult) THEN <<SetBusy(TRUE)>>
             ELSE <<>>
        [] r = "/compare" ->
             IF ~Truthy(st.aiRgb) THEN <<Navigate("/predict")>> ELSE <<>>
        [] r = "/chat" ->
             IF ~Truthy(st.aiRgb) THEN <<Navigate("/compare")>> ELSE <<>>
        [] OTHER -> <<>>)

\* The collaborator calls the effects of the page at r start.
pageEffectCalls(r, st) ==
  IF r = "/verify" /\ Truthy(st.uploadedImage) /\ ~Truthy(st.cvResult)
  THEN <<Call("fetchCvResult", "VerifyPage.fetchResults", st.uploadedImage)>>
  ELSE <<>>

\* The passive effects of the last commit: the page's effects, then the
\* provider's persist effect when the state object is new.
FlushPassive ==
  /\ pagePending
  /\ Len(calls) + Len(pageEffectCalls(route, state)) <= MaxCalls
  /\ updates' = updates \o dispatchedBy("effects", pageEffectUpdates(route, state))
  /\ calls' = calls \o pageEffectCalls(route, state)
  /\ storage' = IF persistPending THEN persist(storage, state) ELSE storage
  /\ pagePending' = FALSE
  /\ persistPending' = FALSE
  /\ UNCHANGED <<state, chatLog, ops, last, clockVars, wf, route, local, clicks>>

\* A user event on the page that is shown: its handler dispatches enq, leaves
\* the useState values loc and the calls cs, and React renders at once, all
\* pending updates in dispatch order.
Click(handler, enq, loc, cs) ==
  /\ clicks < MaxClicks
  /\ ~pagePending
  /\ pageShown(route, state)
  /\ clicks' = clicks + 1
  /\ RenderOf(updates \o dispatchedBy(handler, enq), loc, cs)

\* The links and Back buttons of the page at r.
linksOf(r) ==
  CASE r = "/" -> {}
    [] r = "/3d" -> {"/"}
    [] r = "/upload" -> {"/", "/3d"}
    [] r = "/verify" -> {"/", "/3d", "/upload"}
    [] r = "/coords" -> {"/", "/3d", "/verify"}
    [] r = "/predict" -> {"/", "/3d", "/coords"}
    [] r = "/compare" -> {"/", "/3d", "/predict"}
    [] r = "/chat" -> {"/", "/3d", "/compare"}

clickLink ==
  \E target \in linksOf(route) : Click("Link", <<Navigate(target)>>, local, calls)

\* Index: the Start Lesson link, with handleStartLesson as its onClick.
handleStartLesson ==
  /\ route = "/"
  /\ Click("Index.handleStartLesson", <<Act("RESET_SESSION", JNull), Navigate("/3d")>>, local, calls)

\* PlacementPage: the robot is moved in the scene.
onCoordinatesChange ==
  /\ route = "/3d"
  /\ Click("RobotScene.onCoordinatesChange", <<Act("SET_ROBOT_COORDINATES", SomeCoords)>>, local, calls)

PlacementPage_handleConfirm ==
  /\ route = "/3d"
  /\ ~local.busy
  /\ Len(calls) < MaxCalls
  /\ Click("PlacementPage.handleConfirm", <<>>, [local EXCEPT !.busy = TRUE],
           Append(calls, Call("sendRobotCoordinates", "PlacementPage.handleConfirm",
                              state.robotCoordinates)))

\* UploadPage: a file is dropped on the card, which shows no preview yet.
UploadPage_handleUpload ==
  /\ route = "/upload"
  /\ ~Truthy(local.previewUrl)
  /\ Len(calls) < MaxCalls
  /\ Click("UploadPage.handleUpload", <<>>, local,
           Append(calls, Call("uploadDrawing", "UploadPage.handleUpload", JNull)))

UploadPage_handleClear ==
  /\ route = "/upload"
  /\ Truthy(local.previewUrl)
  /\ Click("UploadPage.handleClear", <<>>, [local EXCEPT !.previewUrl = JNull], calls)

UploadPage_handleContinue ==
  /\ route = "/upload"
  /\ Truthy(local.previewUrl)
  /\ Click("UploadPage.handleContinue", <<Act("COMPLETE_STEP", JStr("upload")), Navigate("/verify")>>,
           local, calls)

VerifyPage_handleContinue ==
  /\ route = "/verify"
  /\ ~local.busy
  /\ Click("VerifyPage.handleContinue", <<Act("COMPLETE_STEP", JStr("verify")), Navigate("/coords")>>,
           local, calls)

CoordsPage_handleSubmit ==
  /\ route = "/coords"
  /\ ~local.busy
  /\ Len(calls) < MaxCalls
  /\ Click("CoordsPage.handleSubmit", <<>>, [local EXCEPT !.busy = TRUE],
           Append(calls, Call("submitCoordinates", "CoordsPage.handleSubmit",
                              SomeCoords)))

\* The closure of the handler holds the rgb submitted and the state of the
\* render in which the form was submitted.
PredictPage_handleSubmit ==
  /\ route = "/predict"
  /\ ~local.busy
  /\ Len(calls) < MaxCalls
  /\ Click("PredictPage.handleSubmit", <<>>, [local EXCEPT !.busy = TRUE],
           Append(calls, Call("submitStudentRgb", "PredictPage.handleSubmit",
                              JObj([rgb |-> SomeRgb,
                                    coords |-> state.robotCoordinates]))))

ComparePage_handleContinue ==
  /\ route = "/compare"
  /\ Click("ComparePage.handleContinue", <<Act("COMPLETE_STEP", JStr("compare")), Navigate("/chat")>>,
           local, calls)

\* The chat messages the pending updates and the calls in flight will add.
chatInFlight ==
  Len(SelectSeq(updates, LAMBDA a : a.type = "ADD_CHAT_MESSAGE"))
  + Len(SelectSeq(calls, LAMBDA c : c.fn = "sendChatMessage"))

ChatPage_handleSendMessage ==
  /\ route = "/chat"
  /\ ~local.busy
  /\ Len(calls) < MaxCalls
  /\ Len(state.chatHistory.v) + chatInFlight + 2 <= MaxChat
  /\ Click("ChatPage.handleSendMessage", <<Act("ADD_CHAT_MESSAGE", ChatMessage("user", SomeQuestion, now))>>,
           [local EXCEPT !.busy = TRUE],
           Append(calls, Call("sendChatMessage", "ChatPage.handleSendMessage",
                              JStr(SomeQuestion))))

\* Start New Session: handleFinishSession is awaited first.
ChatPage_handleStartNewSession ==
  /\ route = "/chat"
  /\ Len(calls) < MaxCalls
  /\ Click("ChatPage.handleStartNewSession", <<>>, local,
           Append(calls, Call("saveSessionResults", "ChatPage.handleStartNewSession",
                              state.studentId)))

\* What the handler awaiting call c dispatches when the call resolves, at
\* time t.
onResolved(c, t) ==
  CASE c.by = "PlacementPage.handleConfirm" ->
         <<Act("COMPLETE_STEP", JStr("placement")), Navigate("/upload")>>
         \o unlessStale(c, <<SetBusy(FALSE)>>)
    [] c.by = "UploadPage.handleUpload" ->
         unlessStale(c, <<SetPreviewUrl(SomeImage)>>)
         \o <<Act("SET_UPLOADED_IMAGE", SomeImage)>>
    [] c.by = "VerifyPage.fetchResults" ->
         <<Act("SET_CV_RESULT", SomeCvResult)>>
         \o unlessStale(c, <<SetBusy(FALSE)>>)
    [] c.by = "CoordsPage.handleSubmit" ->
         <<Act("SET_STUDENT_COORDINATES", c.arg),
           Act("COMPLETE_STEP", JStr("coords")), Navigate("/predict")>>
         \o unlessStale(c, <<SetBusy(FALSE)>>)
    [] c.by = "PredictPage.handleSubmit" /\ c.fn = "submitStudentRgb" ->
         <<Act("SET_STUDENT_RGB", c.arg.v.rgb)>>
    [] c.by = "PredictPage.handleSubmit" /\ c.fn = "fetchAiRgb" ->
         <<Act("SET_AI_RGB", fetchAiRgbResult(c.arg.v.coords)),
           Act("COMPLETE_STEP", JStr("predict")), Navigate("/compare")>>
         \o unlessStale(c, <<SetBusy(FALSE)>>)
    [] c.by = "ChatPage.handleSendMessage" ->
         <<Act("ADD_CHAT_MESSAGE", ChatMessage("assistant", SomeResponse, t))>>
         \o unlessStale(c, <<SetBusy(FALSE)>>)
    [] c.by = "ChatPage.handleStartNewSession" ->
         <<Act("COMPLETE_STEP", JStr("chat")), Act("RESET_SESSION", JNull),
           Navigate("/")>>

\* The calls the handler awaiting call c makes next when the call resolves.
nextCalls(c) ==
  IF c.by = "PredictPage.handleSubmit" /\ c.fn = "submitStudentRgb"
  THEN <<[c EXCEPT !.fn = "fetchAiRgb"]>>
  ELSE <<>>

\* What the handler awaiting call c dispatches when the call rejects, at
\* time t: its catch and finally blocks, and what follows them.
onRejected(c, t) ==
  CASE c.by \in {"PlacementPage.handleConfirm", "VerifyPage.fetchResults",
                 "CoordsPage.handleSubmit", "PredictPage.handleSubmit"} ->
         unlessStale(c, <<SetBusy(FALSE)>>)
    [] c.by = "UploadPage.handleUpload" ->
         <<>>       \* no catch in the handler: UploadCard.handleFile catches
    [] c.by = "ChatPage.handleSendMessage" ->
         <<Act("ADD_CHAT_MESSAGE", ChatMessage("assistant", ErrorResponse, t))>>
         \o unlessStale(c, <<SetBusy(FALSE)>>)
    [] c.by = "ChatPage.handleStartNewSession" ->
         <<Act("RESET_SESSION", JNull), Navigate("/")>>

\* The continuation of the handler of call c after the await of the call.
taskAfter(c) == c.by \o " after " \o c.fn

resolveCall(i) ==
  /\ updates' = updates \o dispatchedBy(taskAfter(calls[i]), onResolved(calls[i], now))
  /\ calls' = SubSeq(calls, 1, i - 1) \o nextCalls(calls[i])
              \o SubSeq(calls, i + 1, Len(calls))
  /\ UNCHANGED <<storeVars, clockVars, wf, route, pagePending, local, clicks>>

rejectCall(i) ==
  /\ updates' = updates \o dispatchedBy(taskAfter(calls[i]), onRejected(calls[i], now))
  /\ calls' = removeAt(calls, i)
  /\ UNCHANGED <<storeVars, clockVars, wf, route, pagePending, local, clicks>>

collaboratorResolves == \E i \in 1..Len(calls) : resolveCall(i)
collaboratorRejects == \E i \in 1..Len(calls) : rejectCall(i)

\* The application is opened at a route, over an empty localStorage.
InitPages ==
  /\ now = 0
  /\ bootTime = 0
  /\ storage = [k \in StorageKeys |-> NoItem]
  /\ state = initializer(initialState(0), NoItem)
  /\ persistPending = TRUE
  /\ chatLog = <<>>
  /\ ops = 0
  /\ last = [type |-> "MOUNT", payload |-> JNull, same |-> FALSE]
  /\ wf = NoCall
  /\ route \in Routes
  /\ updates = <<>>
  /\ calls = <<>>
  /\ pagePending = TRUE
  /\ local = mountLocal(route, state)
  /\ clicks = 0

NextPages ==
  \/ clickLink
  \/ handleStartLesson
  \/ onCoordinatesChange
  \/ PlacementPage_handleConfirm
  \/ UploadPage_handleUpload
  \/ UploadPage_handleClear
  \/ UploadPage_handleContinue
  \/ VerifyPage_handleContinue
  \/ CoordsPage_handleSubmit
  \/ PredictPage_handleSubmit
  \/ ComparePage_handleContinue
  \/ ChatPage_handleSendMessage
  \/ ChatPage_handleStartNewSession
  \/ collaboratorResolves
  \/ collaboratorRejects
  \/ Render
  \/ FlushPassive
  \/ Tick

SpecPages == InitPages /\ [][NextPages]_vars

\* React's scheduler runs a render that is scheduled and the passive effects
\* of a commit; nothing obliges the user or a collaborator to act.
SpecPagesFair ==
  /\ SpecPages
  /\ WF_vars(Render)
  /\ WF_vars(FlushPassive)

(***************************************************************************)
(* A lesson taken with the buttons of the pages only, and collaborators    *)
(* that resolve: Start Lesson, Confirm, the drop of a drawing, Continue,   *)
(* Accept, Submit and Back.  A lesson is picked up on arrival at any of    *)
(* its pages, after the steps before the page were done one after the      *)
(* other.                                                                  *)
(***************************************************************************)
\* The actions the store has been given on the straight way through the
\* lesson, in order.
LessonActions ==
  <<Act("RESET_SESSION", JNull),
    Act("SET_CURRENT_STEP", JStr("placement")),
    Act("COMPLETE_STEP", JStr("placement")),
    Act("SET_CURRENT_STEP", JStr("upload")),
    Act("SET_UPLOADED_IMAGE", SomeImage),
    Act("COMPLETE_STEP", JStr("upload")),
    Act("SET_CURRENT_STEP", JStr("verify")),
    Act("SET_CV_RESULT", SomeCvResult),
    Act("COMPLETE_STEP", JStr("verify")),
    Act("SET_CURRENT_STEP", JStr("coords")),
    Act("SET_STUDENT_COORDINATES", SomeCoords),
    Act("COMPLETE_STEP", JStr("coords")),
    Act("SET_CURRENT_STEP", JStr("predict")),
    Act("SET_STUDENT_RGB", SomeRgb),
    Act("SET_AI_RGB", fetchAiRgbResult(initialState(0).robotCoordinates)),
    Act("COMPLETE_STEP", JStr("predict")),
    Act("SET_CURRENT_STEP", JStr("compare")),
    Act("COMPLETE_STEP", JStr("compare"))>>

\* For the arrival at page k + 1 of the lesson: how many of LessonActions
\* the store has been given, and how many the slot has seen (the last
\* render before the arrival was not written yet).
Arrivals ==
  <<[given |-> 1, written |-> 0], [given |-> 3, written |-> 2],
    [given |-> 6, written |-> 5], [given |-> 9, written |-> 8],
    [given |-> 12, written |-> 10], [given |-> 16, written |-> 14],
    [given |-> 18, written |-> 17]>>

lessonState(n) ==
  applyAll(initializer(initialState(0), NoItem), SubSeq(LessonActions, 1, n), 0, 0)

InitLesson ==
  /\ now = 0
  /\ bootTime = 0
  /\ \E k \in 1 .. Len(Arrivals) :
       /\ state = lessonState(Arrivals[k].given)
       /\ storage = persist([key \in StorageKeys |-> NoItem],
                            lessonState(Arrivals[k].written))
       /\ route = stepPath(WORKFLOW_STEPS[k])
  /\ persistPending = TRUE
  /\ chatLog = <<>>
  /\ ops = 0
  /\ last = [type |-> "MOUNT", payload |-> JNull, same |-> FALSE]
  /\ wf = NoCall
  /\ updates = <<>>
  /\ calls = <<>>
  /\ pagePending = TRUE
  /\ local = mountLocal(route, state)
  /\ clicks = 0

\* The Back button of the page at r (Back to Home on the chat page goes to
\* "/" as well).
backOf(r) ==
  CASE r = "/3d" -> {"/"}
    [] r = "/upload" -> {"/3d"}
    [] r = "/verify" -> {"/upload"}
    [] r = "/coords" -> {"/verify"}
    [] r = "/predict" -> {"/coords"}
    [] r = "/compare" -> {"/predict"}
    [] r = "/chat" -> {"/compare", "/"}
    [] OTHER -> {}

\* Back: a user event that dispatches a navigation only; it is not counted.
goBack ==
  /\ ~pagePending
  /\ pageShown(route, state)
  /\ \E target \in backOf(route) :
       RenderOf(updates \o dispatchedBy("Back", <<Navigate(target)>>),
                local, calls)
  /\ UNCHANGED clicks

NextLesson ==
  \/ goBack
  \/ handleStartLesson
  \/ PlacementPage_handleConfirm
  \/ UploadPage_handleUpload
  \/ UploadPage_handleContinue
  \/ VerifyPage_handleContinue
  \/ CoordsPage_handleSubmit
  \/ PredictPage_handleSubmit
  \/ ComparePage_handleContinue
  \/ collaboratorResolves
  \/ Render
  \/ FlushPassive

SpecLesson == InitLesson /\ [][NextLesson]_vars

(***************************************************************************)
(* Progress of a session in which complete-step is issued with the ids of  *)
(* the workflow steps only, as the pages do: steps are completed in any    *)
(* order, the session is reset, and getProgress is called on the           *)
(* completedSteps of the state.                                            *)
(***************************************************************************)
InitProgress ==
  /\ now = 0
  /\ bootTime = 0
  /\ storage = [k \in StorageKeys |-> NoItem]
  /\ state = initializer(initialState(0), NoItem)
  /\ persistPending = TRUE
  /\ chatLog = <<>>
  /\ ops = 0
  /\ last = [type |-> "MOUNT", payload |-> JNull, same |-> FALSE]
  /\ wf = [fn |-> "getProgress", target |-> "", completed |-> <<>>,
           done |-> FALSE, value |-> FALSE]
  /\ NoPages

completeWorkflowStep ==
  /\ ~wf.done
  /\ \E id \in StepIds : DispatchNow(Act("COMPLETE_STEP", JStr(id)))
  /\ UNCHANGED ops

resetProgress ==
  /\ ~wf.done
  /\ DispatchNow(Act("RESET_SESSION", JNull))
  /\ UNCHANGED ops

callGetProgress ==
  /\ wf.fn = "getProgress"
  /\ ~wf.done
  /\ wf' = [wf EXCEPT !.completed = state.completedSteps.v,
                      !.done = TRUE,
                      !.value = getProgress(state.completedSteps.v)]
  /\ UNCHANGED <<clockVars, storeVars, pageVars>>

NextProgress ==
  \/ completeWorkflowStep
  \/ resetProgress
  \/ PersistEffect
  \/ callGetProgress

SpecProgress == InitProgress /\ [][NextProgress]_vars

(***************************************************************************)
(* The terrain and plant scan.  A number of the scan is held to four       *)
(* decimals, as a count of ten-thousandths, and a product is truncated to  *)
(* four decimals; F(n, d) is the number n / d.  An hour is a multiple of   *)
(* one half, as the time slider gives it.                                  *)
(***************************************************************************)
F(n, d) == (n * 10000) \div d
mul(a, b) == (a * b) \div 10000
MathMin(a, b) == IF a <= b THEN a ELSE b
MathMax(a, b) == IF a >= b THEN a ELSE b
MathAbs(a) == IF a < 0 THEN -a ELSE a

SoilTypes == {"wet", "dry", "good", "bad"}

\* A plausible slip: the centre line belongs to the low side.
getSoilTypeAtPositionTieLow(x, z) ==
  LET centerX == F(5, 10)
      centerZ == F(5, 10)
  IN IF x <= centerX /\ z <= centerZ THEN "wet"
     ELSE IF x > centerX /\ z <= centerZ THEN "dry"
     ELSE IF x <= centerX /\ z > centerZ THEN "good"
     ELSE "bad"

getSoilTypeAtPosition(x, z) ==
  LET centerX == F(5, 10)
      centerZ == F(5, 10)
  IN IF x < centerX /\ z < centerZ THEN "wet"
     ELSE IF x >= centerX /\ z < centerZ THEN "dry"
     ELSE IF x < centerX /\ z >= centerZ THEN "good"
     ELSE "bad"

\* Math.sin(k * PI / 24) for k = 1 .. 12.
SinTable ==
  <<1305, 2588, 3827, 5000, 6088, 7071, 7934, 8660, 9239, 9659, 9914, 10000>>

\* Math.sin(k * PI / 24) for an integer k.
MathSin(k) ==
  LET a == MathAbs(k) % 48
      m == IF a > 24 THEN a - 24 ELSE a
      r == IF m > 12 THEN 24 - m ELSE m
      v == IF r = 0 THEN 0 ELSE SinTable[r]
  IN IF (k < 0) # (a > 24) THEN -v ELSE v

\* Math.cos(k * PI / 24).
MathCos(k) == MathSin(k + 12)

\* getSunPositionFromHour: normalizedHour is counted in steps of PI / 24.
getSunPositionFromHour(hour) ==
  LET normalizedHour == ((hour - F(6, 1)) * 2) \div 10000
      y == MathSin(normalizedHour) * 100
      x == MathCos(normalizedHour) * 80
  IN <<x, MathMax(F(-20, 1), y), F(30, 1)>>

\* A plausible slip: a sun below the horizon is not cut off at 0.
calculateSunlightExposureNoHorizon(elevation, sunY) ==
  LET baseIntensity == F(1, 1)
      heightBonus == mul(elevation, F(4, 10))
      sunFactor == sunY \div 100
      exposure == mul(mul(baseIntensity, F(1, 1) + heightBonus),
                      F(5, 10) + mul(sunFactor, F(5, 10)))
  IN MathMin(F(2, 1), MathMax(F(1, 10), exposure))

\* calculateSunlightExposure with the default baseIntensity of 1.
calculateSunlightExposure(elevation, sunY) ==
  LET baseIntensity == F(1, 1)
      heightBonus == mul(elevation, F(4, 10))
      sunFactor == MathMax(0, sunY \div 100)
      exposure == mul(mul(baseIntensity, F(1, 1) + heightBonus),
                      F(5, 10) + mul(sunFactor, F(5, 10)))
  IN MathMin(F(2, 1), MathMax(F(1, 10), exposure))

SOIL_QUALITY ==
  [wet |-> [nutrientLevel |-> F(6, 10), waterRetention |-> F(1, 1),
            drainageQuality |-> F(3, 10)],
   dry |-> [nutrientLevel |-> F(4, 10), waterRetention |-> F(1, 10),
            drainageQuality |-> F(9, 10)],
   good |-> [nutrientLevel |-> F(1, 1), waterRetention |-> F(7, 10),
             drainageQuality |-> F(8, 10)],
   bad |-> [nutrientLevel |-> F(2, 10), waterRetention |-> F(4, 10),
            drainageQuality |-> F(5, 10)]]

calculateWaterAvailability(soilType, hour) ==
  LET soilQuality == SOIL_QUALITY[soilType]
      dewBonus == IF hour >= F(6, 1) /\ hour <= F(9, 1) THEN F(15, 100) ELSE 0
      evaporationPenalty ==
        IF hour >= F(11, 1) /\ hour <= F(15, 1) THEN F(2, 10) ELSE 0
      baseWater == soilQuality.waterRetention
  IN MathMax(0, MathMin(F(1, 1), baseWater + dewBonus - evaporationPenalty))

\* A plausible slip: low ground starts from a score of 0, not 0.5.
calculatePlantHealthLowGround(factors) ==
  LET soilType == factors.soilType
      elevation == factors.elevation
      hour == factors.hour
      sunPosition == getSunPositionFromHour(hour)
      sunY == sunPosition[2]
      sunlightExposure == calculateSunlightExposure(elevation, sunY)
      sunlightScore ==
        IF sunlightExposure < F(5, 10)
        THEN mul(sunlightExposure, F(15, 10))
        ELSE IF sunlightExposure > F(15, 10)
        THEN MathMax(0, F(15, 10) - mul(sunlightExposure - F(15, 10), F(5, 10)))
        ELSE F(75, 100) + mul(sunlightExposure - F(5, 10), F(25, 100))
      water ==
        IF "waterLevel" \in DOMAIN factors
        THEN factors.waterLevel
        ELSE calculateWaterAvailability(soilType, hour)
      waterScore ==
        IF water < F(3, 10)
        THEN mul(water, F(2, 1))
        ELSE IF water > F(9, 10)
        THEN MathMax(F(3, 10), F(1, 1) - mul(water - F(9, 10), F(3, 1)))
        ELSE F(6, 10) + mul(water - F(3, 10), F(67, 100))
      soilQuality == SOIL_QUALITY[soilType]
      soilScore ==
        mul(soilQuality.nutrientLevel, F(5, 10))
          + mul(soilQuality.drainageQuality, F(3, 10))
          + mul(soilQuality.waterRetention, F(2, 10))
      elevationScore ==
        IF elevation < F(2, 10)
        THEN mul(elevation, F(25, 10))
        ELSE IF elevation > F(8, 10)
        THEN MathMax(F(4, 10), F(1, 1) - mul(elevation - F(8, 10), F(3, 1)))
        ELSE F(8, 10) + mul(MathAbs(F(5, 10) - elevation), F(4, 10))
      health ==
        mul(sunlightScore, F(25, 100))
          + mul(waterScore, F(25, 100))
          + mul(soilScore, F(30, 100))
          + mul(elevationScore, F(20, 100))
  IN MathMax(0, MathMin(F(1, 1), health))

\* calculatePlantHealth: factors has soilType, elevation and hour, and may
\* have waterLevel.
calculatePlantHealth(factors) ==
  LET soilType == factors.soilType
      elevation == factors.elevation
      hour == factors.hour
      sunPosition == getSunPositionFromHour(hour)
      sunY == sunPosition[2]
      sunlightExposure == calculateSunlightExposure(elevation, sunY)
      sunlightScore ==
        IF sunlightExposure < F(5, 10)
        THEN mul(sunlightExposure, F(15, 10))
        ELSE IF sunlightExposure > F(15, 10)
        THEN MathMax(0, F(15, 10) - mul(sunlightExposure - F(15, 10), F(5, 10)))
        ELSE F(75, 100) + mul(sunlightExposure - F(5, 10), F(25, 100))
      water ==
        IF "waterLevel" \in DOMAIN factors
        THEN factors.waterLevel
        ELSE calculateWaterAvailability(soilType, hour)
      waterScore ==
        IF water < F(3, 10)
        THEN mul(water, F(2, 1))
        ELSE IF water > F(9, 10)
        THEN MathMax(F(3, 10), F(1, 1) - mul(water - F(9, 10), F(3, 1)))
        ELSE F(6, 10) + mul(water - F(3, 10), F(67, 100))
      soilQuality == SOIL_QUALITY[soilType]
      soilScore ==
        mul(soilQuality.nutrientLevel, F(5, 10))
          + mul(soilQuality.drainageQuality, F(3, 10))
          + mul(soilQuality.waterRetention, F(2, 10))
      elevationScore ==
        IF elevation < F(2, 10)
        THEN F(5, 10) + mul(elevation, F(25, 10))
        ELSE IF elevation > F(8, 10)
        THEN MathMax(F(4, 10), F(1, 1) - mul(elevation - F(8, 10), F(3, 1)))
        ELSE F(8, 10) + mul(MathAbs(F(5, 10) - elevation), F(4, 10))
      health ==
        mul(sunlightScore, F(25, 100))
          + mul(waterScore, F(25, 100))
          + mul(soilScore, F(30, 100))
          + mul(elevationScore, F(20, 100))
  IN MathMax(0, MathMin(F(1, 1), health))

PlantHealthStates ==
  {"thriving", "healthy", "moderate", "poor", "dying", "dead"}

PLANT_HEALTH_STATES ==
  [thriving |-> [minHealth |-> F(85, 100), maxHealth |-> F(1, 1)],
   healthy |-> [minHealth |-> F(65, 100), maxHealth |-> F(85, 100)],
   moderate |-> [minHealth |-> F(45, 100), maxHealth |-> F(65, 100)],
   poor |-> [minHealth |-> F(25, 100), maxHealth |-> F(45, 100)],
   dying |-> [minHealth |-> F(1, 10), maxHealth |-> F(25, 100)],
   dead |-> [minHealth |-> 0, maxHealth |-> F(1, 10)]]

\* A plausible slip: the boundaries are closed on the upper edge.
getHealthStateOpenLower(health) ==
  IF health > F(85, 100) THEN "thriving"
  ELSE IF health > F(65, 100) THEN "healthy"
  ELSE IF health > F(45, 100) THEN "moderate"
  ELSE IF health > F(25, 100) THEN "poor"
  ELSE IF health > F(1, 10) THEN "dying"
  ELSE "dead"

getHealthState(health) ==
  IF health >= F(85, 100) THEN "thriving"
  ELSE IF health >= F(65, 100) THEN "healthy"
  ELSE IF health >= F(45, 100) THEN "moderate"
  ELSE IF health >= F(25, 100) THEN "poor"
  ELSE IF health >= F(1, 10) THEN "dying"
  ELSE "dead"

\* performTerrainScan: position is <<x, y, z>>.
performTerrainScan(position, hour) ==
  LET x == position[1]
      y == position[2]
      z == position[3]
      soilType == getSoilTypeAtPosition(x, z)
      soilQualityMap ==
        [good |-> F(95, 100), wet |-> F(65, 100), dry |-> F(45, 100),
         bad |-> F(25, 100)]
      elevation == y
      sunPosition == getSunPositionFromHour(hour)
      sunlightExposure == calculateSunlightExposure(elevation, sunPosition[2])
      waterLevelMap ==
        [wet |-> F(9, 10), good |-> F(65, 100), dry |-> F(2, 10),
         bad |-> F(4, 10)]
      waterLevel0 == waterLevelMap[soilType]
      waterLevel1 ==
        IF hour >= F(6, 1) /\ hour <= F(9, 1)
        THEN MathMin(F(1, 1), waterLevel0 + F(1, 10))
        ELSE waterLevel0
      waterLevel ==
        IF hour >= F(11, 1) /\ hour <= F(15, 1)
        THEN MathMax(0, waterLevel1 - F(15, 100))
        ELSE waterLevel1
      baseTemp == F(15, 1) + sunlightExposure * 20
      elevationCooling == elevation * 5
      temperature == baseTemp - elevationCooling
  IN [soilType |-> soilType,
      soilQuality |-> soilQualityMap[soilType],
      elevation |-> elevation,
      sunlightExposure |-> sunlightExposure,
      waterLevel |-> waterLevel,
      temperature |-> temperature]

\* The stress factors performPlantScan pushes, in order.
stressFactorsOf(terrain) ==
  LET when(c, name) == IF c THEN <<name>> ELSE <<>>
  IN when(terrain.sunlightExposure < F(4, 10), "Low sunlight")
       \o when(terrain.sunlightExposure > F(15, 10), "Excessive sun")
       \o when(terrain.waterLevel < F(3, 10), "Drought stress")
       \o when(terrain.waterLevel > F(85, 100), "Waterlogging")
       \o when(terrain.soilQuality < F(4, 10), "Poor soil")
       \o when(terrain.temperature > F(32, 1), "Heat stress")
       \o when(terrain.temperature < F(10, 1), "Cold stress")

\* performPlantScan; the colour of the plant is left out of the result.
performPlantScan(position, hour, terrain) ==
  LET health ==
        calculatePlantHealth([soilType |-> terrain.soilType,
                              elevation |-> terrain.elevation,
                              hour |-> hour,
                              waterLevel |-> terrain.waterLevel])
      healthState == getHealthState(health)
      growthPotential ==
        MathMin(F(1, 1),
                mul(terrain.soilQuality, F(3, 10))
                  + mul(MathMin(F(1, 1), terrain.sunlightExposure), F(3, 10))
                  + mul(terrain.waterLevel, F(25, 100))
                  + mul(IF terrain.elevation > F(2, 10)
                           /\ terrain.elevation < F(8, 10)
                        THEN F(1, 1) ELSE F(5, 10),
                        F(15, 100)))
  IN [health |-> health,
      healthState |-> healthState,
      growthPotential |-> growthPotential,
      stressFactors |-> stressFactorsOf(terrain)]

\* A plausible slip: the soil is looked at before the sunlight.
generateRecommendationsSoilFirst(terrain, plant) ==
  LET when(c, text) == IF c THEN <<text>> ELSE <<>>
      recommendations ==
        when(terrain.waterLevel < F(3, 10), "Increase irrigation")
          \o when(terrain.waterLevel > F(85, 100), "Improve drainage")
          \o when(terrain.soilQuality < F(4, 10),
                  "Consider soil amendment or relocating to better soil")
          \o when(terrain.sunlightExposure < F(4, 10),
                  "Move to higher elevation or wait for better sun angle")
          \o when(plant.health < F(5, 10) /\ terrain.soilType = "bad",
                  "This location is unsuitable for healthy plant growth")
          \o when(plant.growthPotential > F(8, 10),
                  "Excellent growing conditions!")
  IN IF Len(recommendations) = 0
     THEN <<"Conditions are adequate for plant growth">>
     ELSE recommendations

generateRecommendations(terrain, plant) ==
  LET when(c, text) == IF c THEN <<text>> ELSE <<>>
      recommendations ==
        when(terrain.waterLevel < F(3, 10), "Increase irrigation")
          \o when(terrain.waterLevel > F(85, 100), "Improve drainage")
          \o when(terrain.sunlightExposure < F(4, 10),
                  "Move to higher elevation or wait for better sun angle")
          \o when(terrain.soilQuality < F(4, 10),
                  "Consider soil amendment or relocating to better soil")
          \o when(plant.health < F(5, 10) /\ terrain.soilType = "bad",
                  "This location is unsuitable for healthy plant growth")
          \o when(plant.growthPotential > F(8, 10),
                  "Excellent growing conditions!")
  IN IF Len(recommendations) = 0
     THEN <<"Conditions are adequate for plant growth">>
     ELSE recommendations

(***************************************************************************)
(* The scan functions applied to arguments drawn from grids that hold the  *)
(* boundaries of every comparison the functions make.                      *)
(***************************************************************************)
\* Normalized coordinates, the centre 0.5 and its neighbours among them.
PlaneInputs == {F(k, 10) : k \in {0, 4, 5, 6, 10}} \cup {F(5, 10) - 1, F(5, 10) + 1}
ElevationInputs == {F(k, 10) : k \in {0, 1, 2, 5, 8, 9, 10}}
\* The slider: 0 to 24 in steps of 0.5.
HourInputs == {F(k, 2) : k \in 0 .. 48}
\* Health values: every 0.05, and each threshold with its neighbours.
HealthInputs ==
  {F(k, 20) : k \in 0 .. 20}
    \cup UNION {{PLANT_HEALTH_STATES[s].minHealth + e : e \in {-1, 0, 1}} :
                s \in PlantHealthStates \ {"dead"}}

\* Sun heights: what getSunPositionFromHour gives (-20 to 100), and heights
\* beyond, where the upper clamp acts.
SunHeightInputs == {F(k, 1) : k \in {-20, -10, -1, 0, 1, 25, 50, 100, 200, 400}}

\* Scan results handed to generateRecommendations: each reading on both
\* sides of the value it is compared with, and on that value.
TerrainInputs ==
  [soilType : {"bad", "good"},
   soilQuality : {F(25, 100), F(4, 10), F(95, 100)},
   sunlightExposure : {F(3, 10), F(4, 10), F(1, 1)},
   waterLevel : {F(2, 10), F(3, 10), F(5, 10), F(85, 100), F(9, 10)}]
PlantInputs ==
  [health : {F(4, 10), F(5, 10)},
   growthPotential : {F(8, 10), F(9, 10)}]

ScanCall(fn, args) ==
  [fn |-> fn, target |-> args, completed |-> <<>>, done |-> FALSE,
   value |-> FALSE]

InitScan ==
  /\ now = 0
  /\ bootTime = 0
  /\ storage = [k \in StorageKeys |-> NoItem]
  /\ state = initializer(initialState(0), NoItem)
  /\ persistPending = TRUE
  /\ chatLog = <<>>
  /\ ops = 0
  /\ last = [type |-> "MOUNT", payload |-> JNull, same |-> FALSE]
  /\ \/ \E x \in PlaneInputs, z \in PlaneInputs :
          wf = ScanCall("getSoilTypeAtPosition", [x |-> x, z |-> z])
     \/ \E health \in HealthInputs :
          wf = ScanCall("getHealthState", [health |-> health])
     \/ \E soilType \in SoilTypes, hour \in HourInputs :
          wf = ScanCall("calculateWaterAvailability",
                        [soilType |-> soilType, hour |-> hour])
     \/ \E soilType \in SoilTypes, elevation \in ElevationInputs,
           hour \in HourInputs :
          wf = ScanCall("calculatePlantHealth",
                        [soilType |-> soilType, elevation |-> elevation,
                         hour |-> hour])
     \/ \E elevation \in ElevationInputs, sunY \in SunHeightInputs :
          wf = ScanCall("calculateSunlightExposure",
                        [elevation |-> elevation, sunY |-> sunY])
     \/ \E terrain \in TerrainInputs, plant \in PlantInputs :
          wf = ScanCall("generateRecommendations",
                        [terrain |-> terrain, plant |-> plant])
     \/ \E x \in PlaneInputs, y \in ElevationInputs, z \in PlaneInputs,
           hour \in HourInputs :
          wf = ScanCall("performTerrainScan",
                        [position |-> <<x, y, z>>, hour |-> hour])
  /\ NoPages

callGetSoilTypeAtPosition ==
  /\ wf.fn = "getSoilTypeAtPosition"
  /\ ~wf.done
  /\ wf' = [wf EXCEPT !.done = TRUE,
                      !.value = getSoilTypeAtPosition(wf.target.x, wf.target.z)]
  /\ UNCHANGED <<clockVars, storeVars, pageVars>>

callGetHealthState ==
  /\ wf.fn = "getHealthState"
  /\ ~wf.done
  /\ wf' = [wf EXCEPT !.done = TRUE,
                      !.value = getHealthState(wf.target.health)]
  /\ UNCHANGED <<clockVars, storeVars, pageVars>>

callCalculateWaterAvailability ==
  /\ wf.fn = "calculateWaterAvailability"
  /\ ~wf.done
  /\ wf' = [wf EXCEPT !.done = TRUE,
                      !.value = calculateWaterAvailability(wf.target.soilType,
                                                           wf.target.hour)]
  /\ UNCHANGED <<clockVars, storeVars, pageVars>>

callCalculatePlantHealth ==
  /\ wf.fn = "calculatePlantHealth"
  /\ ~wf.done
  /\ wf' = [wf EXCEPT !.done = TRUE,
                      !.value = calculatePlantHealth(wf.target)]
  /\ UNCHANGED <<clockVars, storeVars, pageVars>>

callCalculateSunlightExposure ==
  /\ wf.fn = "calculateSunlightExposure"
  /\ ~wf.done
  /\ wf' = [wf EXCEPT !.done = TRUE,
                      !.value = calculateSunlightExposure(wf.target.elevation,
                                                          wf.target.sunY)]
  /\ UNCHANGED <<clockVars, storeVars, pageVars>>

callPerformTerrainScan ==
  /\ wf.fn = "performTerrainScan"
  /\ ~wf.done
  /\ wf' = [wf EXCEPT !.done = TRUE,
                      !.value = performTerrainScan(wf.target.position,
                                                   wf.target.hour)]
  /\ UNCHANGED <<clockVars, storeVars, pageVars>>

\* performFullScan goes on from the terrain to the plant.
callPerformPlantScan ==
  /\ wf.fn = "performTerrainScan"
  /\ wf.done
  /\ wf' = [wf EXCEPT !.fn = "performPlantScan",
                      !.value = [terrain |-> wf.value,
                                 plant |-> performPlantScan(wf.target.position,
                                                            wf.target.hour,
                                                            wf.value)]]
  /\ UNCHANGED <<clockVars, storeVars, pageVars>>

callGenerateRecommendations ==
  /\ wf.fn = "generateRecommendations"
  /\ ~wf.done
  /\ wf' = [wf EXCEPT !.done = TRUE,
                      !.value = generateRecommendations(wf.target.terrain,
                                                        wf.target.plant)]
  /\ UNCHANGED <<clockVars, storeVars, pageVars>>

\* performFullScan ends with the recommendations and the time of the scan.
callPerformFullScan ==
  /\ wf.fn = "performPlantScan"
  /\ wf' = [wf EXCEPT !.fn = "performFullScan",
                      !.value = [timestamp |-> now,
                                 position |-> wf.target.position,
                                 terrain |-> wf.value.terrain,
                                 plant |-> wf.value.plant,
                                 recommendations |->
                                   generateRecommendations(wf.value.terrain,
                                                           wf.value.plant)]]
  /\ UNCHANGED <<clockVars, storeVars, pageVars>>

NextScan ==
  \/ callGetSoilTypeAtPosition
  \/ callGetHealthState
  \/ callCalculateWaterAvailability
  \/ callCalculatePlantHealth
  \/ callCalculateSunlightExposure
  \/ callPerformTerrainScan
  \/ callPerformPlantScan
  \/ callGenerateRecommendations
  \/ callPerformFullScan

SpecScan == InitScan /\ [][NextScan]_vars

(***************************************************************************)
(* Claims about the store.                                                 *)
(***************************************************************************)
NoDuplicates(arr) == \A i, j \in 1..Len(arr) : arr[i] = arr[j] => i = j

\* C1: completedSteps never contains the same step id twice, and a
\* complete-step for an id that is already present changes nothing: not the
\* state, not the storage, and no persist effect is scheduled.
C1_CompleteStepIdempotent ==
  /\ [](NoDuplicates(state.completedSteps.v))
  /\ [][\A id \in StepPayloads :
          (/\ includes(state.completedSteps.v, id)
           /\ Dispatch(Act("COMPLETE_STEP", JStr(id))))
          => /\ state' = state
             /\ storage' = storage
             /\ persistPending' = persistPending]_vars

\* A complete-step for an id already in completedSteps has been dispatched.
C1_Witness ==
  /\ last.type = "COMPLETE_STEP"
  /\ last.same
  /\ includes(state.completedSteps.v, last.payload.v)

\* C3: every reset yields completedSteps = [], currentStep = 'placement' and
\* a studentId different from the one before the reset.
C3_ResetFreshIdentity ==
  [][resetSession =>
       /\ state'.completedSteps = JArr(<<>>)
       /\ state'.currentStep = JStr("placement")
       /\ state'.studentId # state.studentId]_vars

\* C5: once the persist effect has run, the slot 'tangible-ai-session' holds
\* the JSON serialization of the current state; no other key is written.
C5_SlotHoldsState ==
  /\ ~persistPending => storage[STORAGE_KEY] = JSONstringify(JObj(state))
  /\ \A k \in StorageKeys \ {STORAGE_KEY} : storage[k] = NoItem

\* The effect has run after two mutations.
C5_Witness ==
  /\ ~persistPending
  /\ ops >= 2
  /\ state # initialState(bootTime)
  /\ storage[STORAGE_KEY] = JSONstringify(JObj(state))

\* C8: loading what the persist effect wrote gives back the state, equal in
\* every field, each chat timestamp a Date with the original time value.
C8_RoundTrip ==
  [][Reload =>
       /\ state' = state
       /\ \A i \in 1..Len(state'.chatHistory.v) :
            state'.chatHistory.v[i].v.timestamp.t = "Date"]_vars

\* A session with two chat messages and a completed step has been reloaded.
C8_Witness ==
  /\ last.type = "RELOAD"
  /\ Len(state.chatHistory.v) = 2
  /\ state.completedSteps.v # <<>>

\* C10: chatHistory is the sequence of messages appended since the last
\* reset, in the order they were applied; a step either leaves chatHistory
\* alone, or is an append that adds its message at the end, or is a reset.
C10_ChatAppendOnly ==
  /\ [](state.chatHistory.v = chatLog)
  /\ [][\/ state'.chatHistory = state.chatHistory
        \/ /\ ops' = ops + 1
           /\ last'.type = "ADD_CHAT_MESSAGE"
           /\ state'.chatHistory.v = Append(state.chatHistory.v, last'.payload)
        \/ /\ ops' = ops + 1
           /\ last'.type = "RESET_SESSION"
           /\ state'.chatHistory.v = <<>>]_vars

\* Two messages with different roles have been appended, the second one last.
C10_Witness ==
  /\ last.type = "ADD_CHAT_MESSAGE"
  /\ Len(state.chatHistory.v) = 2
  /\ state.chatHistory.v[1].v.role # state.chatHistory.v[2].v.role
  /\ state.chatHistory.v[2] = last.payload

(***************************************************************************)
(* Claims about the workflow helpers.                                      *)
(***************************************************************************)
\* The steps strictly before id in the fixed order.
StepsBefore(id) ==
  CASE id = "placement" -> {}
    [] id = "upload" -> {"placement"}
    [] id = "verify" -> {"placement", "upload"}
    [] id = "coords" -> {"placement", "upload", "verify"}
    [] id = "predict" -> {"placement", "upload", "verify", "coords"}
    [] id = "compare" -> {"placement", "upload", "verify", "coords", "predict"}
    [] id = "chat" ->
         {"placement", "upload", "verify", "coords", "predict", "compare"}

\* C2: for each of the seven step ids and every completed set,
\* isStepAccessible is true exactly when every step strictly before the id
\* is in the completed set; the first step is always accessible.
C2_AccessibleIffPredecessorsDone ==
  (wf.fn = "isStepAccessible" /\ wf.done) =>
     /\ wf.value <=> \A s \in StepsBefore(wf.target) : JStr(s) \in Range(wf.completed)
     /\ wf.target = "placement" => wf.value

\* isStepAccessible("compare", the five steps before it) has answered true.
C2_Witness ==
  /\ wf.fn = "isStepAccessible"
  /\ wf.done
  /\ wf.target = "compare"
  /\ wf.completed = <<JStr("placement"), JStr("upload"), JStr("verify"),
                      JStr("coords"), JStr("predict")>>
  /\ wf.value

(***************************************************************************)
(* Claims about start-up.                                                  *)
(***************************************************************************)
\* What the slot held when the provider mounted: it is still there until
\* the first persist effect runs.
JustMounted == last.type = "MOUNT" /\ persistPending
StoredAtMount == storage[STORAGE_KEY]

IsArrayOf(x, elemOk(_)) ==
  /\ x.t = "array"
  /\ \A i \in 1..Len(x.v) : elemOk(x.v[i])
IsString(x) == x.t = "string"
IsMessage(x) ==
  /\ x.t = "object"
  /\ DOMAIN x.v = {"role", "content", "timestamp"}
  /\ x.v.timestamp.t = "string"

\* Whether the value stored under key k has the shape SessionState declares.
HasDeclaredShape(k, x) ==
  CASE k \in {"studentId", "currentStep"} -> x.t = "string"
    [] k \in {"robotCoordinates", "studentRgb"} -> x.t = "object"
    [] k \in {"cvResult", "studentCoordinates", "aiRgb"} -> x.t \in {"object", "null"}
    [] k = "uploadedImage" -> x.t \in {"string", "null"}
    [] k = "chatHistory" -> IsArrayOf(x, IsMessage)
    [] k = "completedSteps" -> IsArrayOf(x, IsString)
    [] OTHER -> TRUE

\* Corrupt or old-format content: not JSON, JSON but not an object, or an
\* object with a field of the wrong shape.
IsCorrupt(content) ==
  \/ content.kind = "garbage"
  \/ /\ content.kind = "json"
     /\ \/ content.doc.t # "object"
        \/ \E k \in DOMAIN content.doc.v : ~HasDeclaredShape(k, content.doc.v[k])

\* C6: for every corrupt or old-format content of the slot the session
\* starts in the default state: every field of SessionState has its default.
C6_CorruptFallsBackToDefaults ==
  (JustMounted /\ IsCorrupt(StoredAtMount)) =>
     \A k \in FieldNames : state[k] = initialState(bootTime)[k]

\* C7 as stated: every stored JSON object is shallow-merged over the
\* defaults, each field present in it taking the stored value; an empty slot
\* gives the defaults.
C7_EveryStoredObjectMerged ==
  JustMounted =>
    /\ (StoredAtMount.kind = "json" /\ StoredAtMount.doc.t = "object") =>
         /\ \A k \in DOMAIN StoredAtMount.doc.v : state[k] = StoredAtMount.doc.v[k]
         /\ \A k \in FieldNames \ DOMAIN StoredAtMount.doc.v :
              state[k] = initialState(bootTime)[k]
    /\ StoredAtMount.kind = "none" =>
         /\ state = initialState(bootTime)
         /\ state.currentStep = JStr("placement")
         /\ state.completedSteps = JArr(<<>>)

\* Reviving the stored chatHistory throws: it is present and truthy, and is
\* not an array or holds a null.
RevivalThrows(obj) ==
  /\ "chatHistory" \in DOMAIN obj
  /\ Truthy(obj.chatHistory)
  /\ \/ obj.chatHistory.t # "array"
     \/ \E i \in 1..Len(obj.chatHistory.v) : obj.chatHistory.v[i].t = "null"

\* The stored chatHistory with the ISO timestamps turned into Dates.
IsRevivedFrom(x, stored) ==
  /\ x.t = "array"
  /\ Len(x.v) = Len(stored.v)
  /\ \A i \in 1..Len(x.v) :
       /\ x.v[i].v.role = stored.v[i].v.role
       /\ x.v[i].v.content = stored.v[i].v.content
       /\ x.v[i].v.timestamp.t = "Date"
       /\ toISOString(x.v[i].v.timestamp.v) = stored.v[i].v.timestamp.v

\* C7, amended: a stored JSON object whose chatHistory can be revived is
\* shallow-merged over the defaults, each field present in it taking the
\* stored value (chatHistory: the stored messages with their timestamps
\* revived to Dates) and each absent default field keeping its default; a
\* stored object whose chatHistory cannot be revived gives the defaults, and
\* so does an empty slot.
C7_ShallowMergeWhenRevivable ==
  JustMounted =>
    /\ (StoredAtMount.kind = "json" /\ StoredAtMount.doc.t = "object") =>
         LET obj == StoredAtMount.doc.v
         IN IF RevivalThrows(obj)
            THEN state = initialState(bootTime)
            ELSE /\ DOMAIN state = FieldNames \cup DOMAIN obj
                 /\ \A k \in DOMAIN obj :
                      IF k = "chatHistory" /\ Truthy(obj[k])
                      THEN IsRevivedFrom(state[k], obj[k])
                      ELSE state[k] = obj[k]
                 /\ \A k \in FieldNames \ DOMAIN obj :
                      state[k] = initialState(bootTime)[k]
    /\ StoredAtMount.kind = "none" =>
         /\ state = initialState(bootTime)
         /\ state.currentStep = JStr("placement")
         /\ state.completedSteps = JArr(<<>>)

\* The provider mounted over a stored object that holds a studentId and a
\* chat message, and took both.
C7_Witness ==
  /\ JustMounted
  /\ StoredAtMount.kind = "json"
  /\ StoredAtMount.doc.t = "object"
  /\ DOMAIN StoredAtMount.doc.v = {"studentId", "chatHistory"}
  /\ state.studentId = JStr("student_7")
  /\ state.chatHistory.t = "array"
  /\ Len(state.chatHistory.v) = 2
  /\ state.currentStep = JStr("placement")

(***************************************************************************)
(* Claims about the pages.                                                 *)
(***************************************************************************)
\* C4: between two consecutive store mutations the slot is written with the
\* state the first one produced, two mutations dispatched by the same page
\* handler included: no render applies the second of them over a state
\* that differs from what the slot holds.
C4_SlotWrittenBetweenMutations ==
  last.type = "RENDER" => last.payload.v = 0

\* completedSteps and currentStep once the pending updates are rendered.
workflowAfter(st, q, ms, t) ==
  LET s2 == applyAll(st, storeActions(q), ms, t)
  IN <<s2.completedSteps, s2.currentStep>>

\* C9: when a collaborator call rejects, what the handler awaiting it goes
\* on to dispatch leaves completedSteps and currentStep as they were.
C9_RejectionLeavesWorkflowUnchanged ==
  [][\A i \in 1..MaxCalls :
       (i <= Len(calls) /\ rejectCall(i)) =>
          workflowAfter(state', updates', bootTime, now)
            = workflowAfter(state, updates, bootTime, now)]_vars

(***************************************************************************)
(* Further claims about the store.                                         *)
(***************************************************************************)
IsPrefix(a, b) == Len(a) <= Len(b) /\ SubSeq(b, 1, Len(a)) = a

\* C11: a complete-step for an id not yet present appends the id at the end
\* of completedSteps, the earlier entries keeping their places; and no
\* operation other than a reset removes or moves an entry: after every other
\* step the old completedSteps is a prefix of the new one.
C11_CompleteStepKeepsOrder ==
  [][/\ \A id \in StepPayloads :
          (/\ ~includes(state.completedSteps.v, id)
           /\ Dispatch(Act("COMPLETE_STEP", JStr(id))))
          => state'.completedSteps.v = Append(state.completedSteps.v, JStr(id))
     /\ \/ resetSession
        \/ IsPrefix(state.completedSteps.v, state'.completedSteps.v)]_vars

\* A second id has been appended behind one that comes after it in the
\* workflow order.
C11_Witness ==
  /\ last.type = "COMPLETE_STEP"
  /\ ~last.same
  /\ state.completedSteps.v = <<JStr("upload"), JStr("placement")>>

\* C12: after setCurrentStep(id) the currentStep is id, for every step id
\* and state, accessible or not, and completedSteps is as it was.
C12_SetCurrentStepUnconditional ==
  [][\A id \in StepPayloads :
       Dispatch(Act("SET_CURRENT_STEP", JStr(id)))
       => /\ state'.currentStep = JStr(id)
          /\ state'.completedSteps = state.completedSteps]_vars

\* The cursor has been moved to a step that is not accessible.
C12_Witness ==
  /\ last.type = "SET_CURRENT_STEP"
  /\ last.payload = JStr("upload")
  /\ ~isStepAccessible("upload", state.completedSteps.v)
  /\ state.currentStep = JStr("upload")

\* C13: reset restores every field other than studentId to its default,
\* from any state.
C13_ResetRestoresDefaults ==
  [][resetSession =>
       /\ DOMAIN state' = FieldNames
       /\ state'.robotCoordinates = Coords(128, 128, 128)
       /\ state'.uploadedImage = JNull
       /\ state'.cvResult = JNull
       /\ state'.studentCoordinates = JNull
       /\ state'.studentRgb = Rgb(128, 128, 128)
       /\ state'.aiRgb = JNull
       /\ state'.chatHistory = JArr(<<>>)
       /\ state'.completedSteps = JArr(<<>>)
       /\ state'.currentStep = JStr("placement")]_vars

\* A session with a moved robot and a completed step has been reset: the
\* slot still holds the state from before the reset.
C13_Witness ==
  /\ last.type = "RESET_SESSION"
  /\ persistPending
  /\ storage[STORAGE_KEY].kind = "json"
  /\ storage[STORAGE_KEY].doc.v.robotCoordinates = SomeCoords
  /\ storage[STORAGE_KEY].doc.v.completedSteps.v # <<>>
  /\ state.completedSteps = JArr(<<>>)

(***************************************************************************)
(* Further claims about the workflow helpers.                              *)
(***************************************************************************)
\* The step next to id in the fixed order, in direction d (1: after, -1:
\* before); "" where there is none.
Adjacent(id, d) ==
  CASE id = "placement" -> IF d = 1 THEN "upload" ELSE ""
    [] id = "upload" -> IF d = 1 THEN "verify" ELSE "placement"
    [] id = "verify" -> IF d = 1 THEN "coords" ELSE "upload"
    [] id = "coords" -> IF d = 1 THEN "predict" ELSE "verify"
    [] id = "predict" -> IF d = 1 THEN "compare" ELSE "coords"
    [] id = "compare" -> IF d = 1 THEN "chat" ELSE "predict"
    [] id = "chat" -> IF d = 1 THEN "" ELSE "compare"
    [] OTHER -> ""

\* C14: getNextStep and getPrevStep return the adjacent step in the fixed
\* order; getNextStep of the last step, getPrevStep of the first step and
\* both of an unknown id are null; and getPrevStep of the step getNextStep
\* returned for s is s.
C14_AdjacentStepOrNull ==
  /\ (wf.fn = "getNextStep" /\ wf.done) =>
       IF Adjacent(wf.target, 1) = ""
       THEN wf.value = JNull
       ELSE /\ wf.value = JStr(Adjacent(wf.target, 1))
            /\ getPrevStep(wf.value.v) = JStr(wf.target)
  /\ (wf.fn = "getPrevStep" /\ wf.done) =>
       IF Adjacent(wf.target, -1) = ""
       THEN wf.value = JNull
       ELSE wf.value = JStr(Adjacent(wf.target, -1))

\* getNextStep of an id that is no workflow step has answered null.
C14_Witness ==
  /\ wf.fn = "getNextStep"
  /\ wf.done
  /\ wf.target = "no-such-step"
  /\ wf.value = JNull

\* C15: getProgress(completedSteps) is completedCount / 7 * 100; in a session
\* that completes workflow steps only it is between 0 and 100, it is 100
\* exactly when all seven steps are in completedSteps, and it is 0 right
\* after a reset.
C15_ProgressIsPercentage ==
  /\ (wf.fn = "getProgress" /\ wf.done) =>
       /\ wf.value.num * 7 = Cardinality(Range(wf.completed)) * 100 * wf.value.den
       /\ 0 <= wf.value.num
       /\ wf.value.num <= 100 * wf.value.den
       /\ (wf.value.num = 100 * wf.value.den)
            <=> (\A id \in StepIds : JStr(id) \in Range(wf.completed))
  /\ (wf.fn = "getProgress" /\ ~wf.done /\ last.type = "RESET_SESSION") =>
       getProgress(state.completedSteps.v).num = 0

\* getProgress has been called with all seven steps complete, the last
\* step completed first.
C15_Witness ==
  /\ wf.fn = "getProgress"
  /\ wf.done
  /\ Len(wf.completed) = 7
  /\ wf.completed[1] = JStr("chat")
  /\ wf.value.num = 100 * wf.value.den

(***************************************************************************)
(* Claims about the terrain and plant scan.                                *)
(***************************************************************************)
\* The fixture: normalized position (0.6, 0.5, 0.6) at hour 13.
FixturePosition == <<F(6, 10), F(5, 10), F(6, 10)>>
FixtureHour == F(13, 1)

\* C16: for the fixture the soil is bad, the midday evaporation penalty is
\* taken from the water, and the plant health is in [0.1, 0.45), so that the
\* health state is poor or dying; the health calculatePlantHealth gives on
\* its own for bad soil, elevation 0.5 and hour 13 is in [0.1, 0.45) too.
C16_FixtureIsPoorOrDying ==
  /\ (wf.fn = "performPlantScan"
        /\ wf.target = [position |-> FixturePosition, hour |-> FixtureHour]) =>
       /\ wf.value.terrain.soilType = "bad"
       /\ wf.value.terrain.waterLevel = F(4, 10) - F(15, 100)
       /\ wf.value.plant.health >= F(1, 10)
       /\ wf.value.plant.health < F(45, 100)
       /\ wf.value.plant.healthState \in {"poor", "dying"}
  /\ (wf.fn = "calculatePlantHealth" /\ wf.done
        /\ wf.target = [soilType |-> "bad", elevation |-> FixturePosition[2],
                        hour |-> FixtureHour]) =>
       /\ wf.value >= F(1, 10)
       /\ wf.value < F(45, 100)

\* C17: performTerrainScan returns soilQuality, elevation, sunlightExposure
\* and waterLevel between 0 and 1 inclusive, for every position of the unit
\* cube and every hour.
C17_TerrainReadingsInUnitInterval ==
  (wf.fn = "performTerrainScan" /\ wf.done) =>
    \A reading \in {"soilQuality", "elevation", "sunlightExposure",
                    "waterLevel"} :
      /\ 0 <= wf.value[reading]
      /\ wf.value[reading] <= F(1, 1)

\* What the soil holds before dew and evaporation, on the terrain-scan path.
TerrainBaseWater ==
  [wet |-> F(9, 10), good |-> F(65, 100), dry |-> F(2, 10), bad |-> F(4, 10)]

\* base + 0.15 when 6 <= hour <= 9, - penalty when 11 <= hour <= 15, in [0, 1].
WaterAsStated(base, hour, penalty) ==
  LET dew == IF hour >= F(6, 1) /\ hour <= F(9, 1) THEN F(15, 100) ELSE 0
      evap == IF hour >= F(11, 1) /\ hour <= F(15, 1) THEN penalty ELSE 0
      w == base + dew - evap
  IN IF w < 0 THEN 0 ELSE IF w > F(1, 1) THEN F(1, 1) ELSE w

\* C18: the water is the base of the soil plus a dew bonus of 0.15 when
\* 6 <= hour <= 9, minus an evaporation penalty when 11 <= hour <= 15,
\* clamped to [0, 1]; the bonus is 0.15 on both paths, the penalty is 0.2 in
\* calculateWaterAvailability and 0.15 in performTerrainScan.
C18_WaterDewAndEvaporation ==
  /\ (wf.fn = "calculateWaterAvailability" /\ wf.done) =>
       wf.value = WaterAsStated(SOIL_QUALITY[wf.target.soilType].waterRetention,
                                wf.target.hour, F(2, 10))
  /\ (wf.fn = "performTerrainScan" /\ wf.done) =>
       wf.value.waterLevel = WaterAsStated(TerrainBaseWater[wf.value.soilType],
                                           wf.target.hour, F(15, 100))

\* C19: getSoilTypeAtPosition returns wet iff x < 0.5 and z < 0.5, dry iff
\* x >= 0.5 and z < 0.5, good iff x < 0.5 and z >= 0.5, bad iff x >= 0.5 and
\* z >= 0.5; (0.4, 0.4) is wet, (0.6, 0.4) dry, (0.4, 0.6) good, (0.6, 0.6)
\* bad, and the centre is bad.
C19_QuadrantsWithTieBreak ==
  (wf.fn = "getSoilTypeAtPosition" /\ wf.done) =>
    LET x == wf.target.x
        z == wf.target.z
        half == F(5, 10)
    IN /\ wf.value \in SoilTypes
       /\ (wf.value = "wet") <=> (x < half /\ z < half)
       /\ (wf.value = "dry") <=> (x >= half /\ z < half)
       /\ (wf.value = "good") <=> (x < half /\ z >= half)
       /\ (wf.value = "bad") <=> (x >= half /\ z >= half)
       /\ (x = F(4, 10) /\ z = F(4, 10)) => wf.value = "wet"
       /\ (x = F(6, 10) /\ z = F(4, 10)) => wf.value = "dry"
       /\ (x = F(4, 10) /\ z = F(6, 10)) => wf.value = "good"
       /\ (x = F(6, 10) /\ z = F(6, 10)) => wf.value = "bad"
       /\ (x = half /\ z = half) => wf.value = "bad"

\* The centre point has been classified.
C19_Witness ==
  /\ wf.fn = "getSoilTypeAtPosition"
  /\ wf.done
  /\ wf.target = [x |-> F(5, 10), z |-> F(5, 10)]
  /\ wf.value = "bad"

\* The buckets from worst to best.
BucketRank(s) ==
  CASE s = "dead" -> 0
    [] s = "dying" -> 1
    [] s = "poor" -> 2
    [] s = "moderate" -> 3
    [] s = "healthy" -> 4
    [] s = "thriving" -> 5

\* C20: getHealthState maps a health in [0, 1] to exactly one bucket:
\* >= 0.85 thriving, >= 0.65 healthy, >= 0.45 moderate, >= 0.25 poor,
\* >= 0.1 dying, otherwise dead; a higher health never maps to a worse
\* bucket; and the health lies in the minHealth .. maxHealth range of its
\* bucket in PLANT_HEALTH_STATES, a shared boundary going to the upper one.
C20_ThresholdLadder ==
  (wf.fn = "getHealthState" /\ wf.done) =>
    LET h == wf.target.health
    IN /\ wf.value \in PlantHealthStates
       /\ (wf.value = "thriving") <=> (h >= F(85, 100))
       /\ (wf.value = "healthy") <=> (h >= F(65, 100) /\ h < F(85, 100))
       /\ (wf.value = "moderate") <=> (h >= F(45, 100) /\ h < F(65, 100))
       /\ (wf.value = "poor") <=> (h >= F(25, 100) /\ h < F(45, 100))
       /\ (wf.value = "dying") <=> (h >= F(1, 10) /\ h < F(25, 100))
       /\ (wf.value = "dead") <=> (h < F(1, 10))
       /\ \A h2 \in HealthInputs :
            h2 >= h => BucketRank(getHealthState(h2)) >= BucketRank(wf.value)
       /\ PLANT_HEALTH_STATES[wf.value].minHealth <= h
       /\ h <= PLANT_HEALTH_STATES[wf.value].maxHealth
       /\ \A s \in PlantHealthStates :
            (PLANT_HEALTH_STATES[s].minHealth <= h
               /\ h < PLANT_HEALTH_STATES[s].maxHealth) => wf.value = s

\* A health on a boundary, 0.85, has been mapped to the upper bucket.
C20_Witness ==
  /\ wf.fn = "getHealthState"
  /\ wf.done
  /\ wf.target.health = F(85, 100)
  /\ wf.value = "thriving"

\* C21: calculateSunlightExposure(elevation, sunHeight) is within [0.1, 2];
\* for sunHeight >= 0 it is non-decreasing in elevation and in sunHeight; for
\* sunHeight < 0 it does not depend on sunHeight; unclamped it is
\* (1 + elevation * 0.4) * (0.5 + max(0, sunHeight / 100) * 0.5).
C21_SunlightExposureMonotone ==
  (wf.fn = "calculateSunlightExposure" /\ wf.done) =>
    LET e == wf.target.elevation
        sunY == wf.target.sunY
        sun == IF sunY < 0 THEN 0 ELSE sunY \div 100
        stated == ((F(1, 1) + (e * 4) \div 10) * (F(5, 10) + sun \div 2))
                    \div 10000
    IN /\ F(1, 10) <= wf.value
       /\ wf.value <= F(2, 1)
       /\ (F(1, 10) <= stated /\ stated <= F(2, 1)) => wf.value = stated
       /\ stated > F(2, 1) => wf.value = F(2, 1)
       /\ sunY >= 0 =>
            /\ \A e2 \in ElevationInputs :
                 e2 >= e => calculateSunlightExposure(e2, sunY) >= wf.value
            /\ \A s2 \in SunHeightInputs :
                 s2 >= sunY => calculateSunlightExposure(e, s2) >= wf.value
       /\ sunY < 0 =>
            \A s2 \in SunHeightInputs :
              s2 < 0 => calculateSunlightExposure(e, s2) = wf.value

\* The exposure under a sun below the horizon has been computed on raised
\* ground: it is above the floor of the clamp and owes nothing to the sun.
C21_Witness ==
  /\ wf.fn = "calculateSunlightExposure"
  /\ wf.done
  /\ wf.target.sunY = F(-20, 1)
  /\ wf.target.elevation = F(1, 1)
  /\ wf.value = F(7, 10)

\* The messages in the order of the checks, the fallback last.
RecommendationOrder ==
  <<"Increase irrigation",
    "Improve drainage",
    "Move to higher elevation or wait for better sun angle",
    "Consider soil amendment or relocating to better soil",
    "This location is unsuitable for healthy plant growth",
    "Excellent growing conditions!",
    "Conditions are adequate for plant growth">>

\* The checks that fire on a terrain and a plant, by position in the order.
Triggered(terrain, plant) ==
  {i \in 1 .. 6 :
     CASE i = 1 -> terrain.waterLevel < F(3, 10)
       [] i = 2 -> terrain.waterLevel > F(85, 100)
       [] i = 3 -> terrain.sunlightExposure < F(4, 10)
       [] i = 4 -> terrain.soilQuality < F(4, 10)
       [] i = 5 -> plant.health < F(5, 10) /\ terrain.soilType = "bad"
       [] i = 6 -> plant.growthPotential > F(8, 10)}

\* r lists exactly the messages of the checks that fired, in the order of
\* the checks, or the fallback alone when none fired.
InCheckOrder(r, terrain, plant) ==
  LET fired == Triggered(terrain, plant)
  IN /\ Len(r) > 0
     /\ \A i \in 1 .. Len(r) :
          \E k \in 1 .. 7 : r[i] = RecommendationOrder[k]
     /\ \A i, j \in 1 .. Len(r) :
          i < j => \E k, l \in 1 .. 7 :
                     /\ k < l
                     /\ r[i] = RecommendationOrder[k]
                     /\ r[j] = RecommendationOrder[l]
     /\ \A k \in 1 .. 6 :
          (k \in fired) <=> (\E i \in 1 .. Len(r) : r[i] = RecommendationOrder[k])
     /\ (r = <<RecommendationOrder[7]>>) <=> (fired = {})

\* C22: generateRecommendations lists the messages of the checks that fired
\* in the fixed order irrigation, drainage, sunlight, soil amendment,
\* unsuitable location, excellent conditions; the result is never empty and
\* is the single fallback message exactly when no check fired.
C22_RecommendationsInCheckOrder ==
  /\ (wf.fn = "generateRecommendations" /\ wf.done) =>
       InCheckOrder(wf.value, wf.target.terrain, wf.target.plant)
  /\ wf.fn = "performFullScan" =>
       InCheckOrder(wf.value.recommendations, wf.value.terrain, wf.value.plant)

\* Low sunlight and poor soil fired together, with drought before them.
C22_Witness ==
  /\ wf.fn = "generateRecommendations"
  /\ wf.done
  /\ Len(wf.value) >= 3
  /\ wf.value[1] = RecommendationOrder[1]
  /\ wf.value[2] = RecommendationOrder[3]
  /\ wf.value[3] = RecommendationOrder[4]

(***************************************************************************)
(* Further claims about the store and the pages.                           *)
(***************************************************************************)
\* The field each set-field action names.
FieldOf ==
  [SET_ROBOT_COORDINATES |-> "robotCoordinates",
   SET_UPLOADED_IMAGE |-> "uploadedImage",
   SET_CV_RESULT |-> "cvResult",
   SET_STUDENT_COORDINATES |-> "studentCoordinates",
   SET_STUDENT_RGB |-> "studentRgb",
   SET_AI_RGB |-> "aiRgb"]

\* C23: set-coordinates, set-uploaded-image, set-cv-result,
\* set-student-coordinates, set-student-rgb and set-ai-rgb each replace the
\* field they name with the payload and leave every other field as it was;
\* an action of an unknown type leaves the state as it was.
C23_SettersChangeOwnField ==
  [][/\ (ops' # ops /\ last'.type \in DOMAIN FieldOf) =>
          /\ DOMAIN state' = DOMAIN state
          /\ state'[FieldOf[last'.type]] = last'.payload
          /\ \A f \in DOMAIN state \ {FieldOf[last'.type]} :
               state'[f] = state[f]
     /\ (ops' # ops /\ last'.type = "UNKNOWN") => state' = state]_vars

\* The student colour has been set in a state that held an AI colour, a
\* completed step; the AI colour and the step are kept.
C23_Witness ==
  /\ last.type = "SET_STUDENT_RGB"
  /\ state.studentRgb = last.payload
  /\ state.studentRgb # initialState(0).studentRgb
  /\ state.aiRgb # JNull
  /\ state.completedSteps.v # <<>>

\* Nothing is left to do: no update waits for a render, no effect waits to
\* run, and the slot holds the state.
Settled ==
  /\ updates = <<>>
  /\ ~pagePending
  /\ ~persistPending

\* C24: a visit to a workflow page settles: once the page is shown the
\* store reaches a state in which no action is pending and no write to the
\* storage is due.
C24_PageVisitSettles == isWorkflowPage(route) ~> Settled

\* C25: after a reset chatHistory holds only the messages of sends started
\* after it.  A send appends its user message at once and its reply when
\* sendChatMessage settles, so a reply is in chatHistory only right behind
\* the user message of its send; the reply to a call that was in flight when
\* Start New Session reset the store has no such message before it.
C25_ResetIsolatesChat ==
  \A i \in 1 .. Len(state.chatHistory.v) :
    state.chatHistory.v[i].v.role = JStr("assistant") =>
      /\ i > 1
      /\ state.chatHistory.v[i - 1].v.role = JStr("user")

\* C26: the coordinates handleConfirm passed to sendRobotCoordinates are the
\* robotCoordinates of the session when 'placement' is marked complete, that
\* is, of the state the continuation's complete-step is applied to, however
\* moves of the robot fall between the call and its resolution.
C26_ConfirmSendsCurrentCoordinates ==
  [][\A i \in 1..MaxCalls :
       (/\ i <= Len(calls)
        /\ calls[i].by = "PlacementPage.handleConfirm"
        /\ resolveCall(i)) =>
          calls[i].arg
            = applyAll(state, storeActions(updates'), bootTime, now).robotCoordinates]_vars

\* C27: whenever aiRgb is not null it is (round(x), round(y), round(z)) of
\* the robotCoordinates of the session, also after the learner has gone back
\* to the placement page and moved the robot.
C27_AiRgbFollowsRobot ==
  Truthy(state.aiRgb) => state.aiRgb = fetchAiRgbResult(state.robotCoordinates)

\* C28: 'verify' is in completedSteps only when cvResult is not null, also
\* when fetchCvResult rejects.
C28_VerifyNeedsCvResult ==
  includes(state.completedSteps.v, "verify") => Truthy(state.cvResult)

\* C29: in a lesson taken with the buttons of the pages and collaborators
\* that resolve, completedSteps is at all times a prefix of placement,
\* upload, verify, coords, predict, compare, chat.
C29_CompletedIsPrefixOfOrder ==
  \A i \in 1 .. Len(state.completedSteps.v) :
    /\ i <= Len(WORKFLOW_STEPS)
    /\ state.completedSteps.v[i] = JStr(WORKFLOW_STEPS[i])

\* The buckets at or above a health of 0.45.
AtLeastModerate == {"thriving", "healthy", "moderate"}

\* C30: for every soil type, elevation in [0, 1] and hour, with the water
\* of the terrain scan or without it, calculatePlantHealth returns at least
\* 0.45, and getHealthState of it is not poor, dying or dead.
C30_HealthFloor ==
  /\ (wf.fn = "calculatePlantHealth" /\ wf.done) =>
       /\ wf.value >= F(45, 100)
       /\ getHealthState(wf.value) \in AtLeastModerate
  /\ wf.fn \in {"performPlantScan", "performFullScan"} =>
       /\ wf.value.plant.health >= F(45, 100)
       /\ wf.value.plant.healthState \in AtLeastModerate

\* The lowest health there is, on dry soil at the lowest ground in the last
\* hour of the evaporation, has been computed: it is within 0.01 of the
\* floor.
C30_Witness ==
  /\ wf.fn = "calculatePlantHealth"
  /\ wf.done
  /\ wf.target = [soilType |-> "dry", elevation |-> 0, hour |-> F(15, 1)]
  /\ wf.value < F(46, 100)

====
